---- MODULE Spec2Model ----
(***************************************************************************)
(* The in-memory vector store (QdrantStore) of pkg/vectorstore and the     *)
(* search engine built on it.                                              *)
(*                                                                         *)
(* The specifications share the definitions of the store's handlers:       *)
(*   Spec        every handler runs as one step (each handler of the store *)
(*               holds s.lock from its first to its last statement), with  *)
(*               the clock and the sweep goroutine as further processes;   *)
(*   SpecConc    the same handlers with the acquisition of s.lock, the     *)
(*               body and the release as separate steps of several callers *)
(*               and of the sweep goroutine;                               *)
(*   SpecSearch  Search applied once to every store content and parameter  *)
(*               drawn from bounded sets;                                  *)
(*   SpecPar     concurrent calls of Store under different ids, followed   *)
(*               by concurrent calls of Get, beside the sweep goroutine;   *)
(*   SpecEngine  the calls of the Engine (IndexDocument, Search) step by   *)
(*               step, with the cancellation of the context and a          *)
(*               concurrent Cleanup;                                       *)
(*   SpecLimit   Engine.Search applied once to the store of an indexed     *)
(*               document, for every chunk count and limit drawn;          *)
(*   SpecReindex the Engine indexing a document again and again, beside    *)
(*               the clock, the sweep and Delete;                          *)
(*   SpecLock    the handlers with s.lock as a sync.RWMutex of its own     *)
(*               (holders and waiters), under fair scheduling;             *)
(*   SpecHold    the Engine's calls beside a caller of the store and the   *)
(*               sweep, with the same RWMutex;                             *)
(*   SpecCosine  one Store and one Search, for every pair of vectors of    *)
(*               several lengths drawn;                                    *)
(*   SpecAlias   Spec with callers writing to the items they share with    *)
(*               the store.                                                *)
(* Two more specifications model the other packages:                       *)
(*   SpecChunk   Processor.chunkContent applied once to every content;     *)
(*   SpecReader  ReadAll on a ChunkedReader, Read by Read.                 *)
(***************************************************************************)
EXTENDS Integers, Sequences, FiniteSets, TLC

VARIABLES
    items,        \* s.items: the map id -> *Item (a function on the present ids)
    itemsNil,     \* s.items == nil (Close has released the map)
    closed,       \* s.closed
    closeSignals, \* how many times close(s.closeChan) has been executed
    closeCalls,   \* history: completed calls of Close, counted up to two
    now,          \* the wall clock read by time.Now()
    sweepPc,      \* position of the cleanupRoutine goroutine
    pc,           \* SpecConc: per caller, the handler whose lock it holds
    last,         \* the last completed call: handler, arguments, outcome
    stored,       \* history: per id, the item of the last successful Store
                  \* that no Store, Delete or Close has replaced since
    nilAccess,    \* history: a handler evaluated s.items while it was nil
    eng,          \* the call of the Engine in progress: its arguments, its
                  \* position, its context and what it has done so far
    mu,           \* SpecLock, SpecHold: s.lock, the sync.RWMutex
    cr,           \* SpecReader: a ChunkedReader, its source and its use
    proc          \* SpecChunk: a call of Processor.chunkContent

vars == <<items, itemsNil, closed, closeSignals, closeCalls, now, sweepPc,
          pc, last, stored, nilAccess, eng, mu, cr, proc>>

----------------------------------------------------------------------------
(* Bounds *)

NumIds == 2        \* item ids of Spec
MaxTime == 3       \* clock values of Spec: 1..MaxTime
NumCallers == 2    \* concurrent callers of SpecConc
SearchIds == 3     \* item ids of SpecSearch
MaxLimit == 3      \* largest SearchParams.Limit drawn

Ids == 1..NumIds
Callers == 1..NumCallers
SIds == 1..SearchIds

----------------------------------------------------------------------------
(* Data *)

\* Item: ID, Vector, Content (standing for the opaque payload DocumentID,
\* Content, Title, Metadata), Permissions (the slice, read only as a set of
\* tokens), ExpiresAt (a time.Time: 0 is the zero Time, clock values are >= 1).
Item(id, vec, content, perms, exp) ==
    [ID |-> id, Vector |-> vec, Content |-> content, Permissions |-> perms,
     ExpiresAt |-> exp]

\* The expiry a caller means for an item: none (<<>>), or <<t>> for the
\* instant t.  The instants are those of time.Time: 0, the zero Time
\* (January 1 of year 1), lies before every value of the clock.
\* What the caller writes into Item.ExpiresAt, a time.Time and not a pointer
\* to one: the instant itself, and for no expiry the zero Time, the value
\* the field has when it is left out.
ExpiresAtOf(expiry) == IF expiry = <<>> THEN 0 ELSE expiry[1]

\* time.Time.IsZero
IsZero(t) == t = 0

\* time.Time.After
After(t, u) == t > u

\* The expiry test shared by Get, Search and cleanupExpiredItems:
\* !item.ExpiresAt.IsZero() && time.Now().After(item.ExpiresAt)
Expired(item, t) == ~IsZero(item.ExpiresAt) /\ After(t, item.ExpiresAt)

\* The error values the handlers return.
ErrNil == "nil"
ErrClosed == "store is closed"
ErrNotFound == "item not found"
ErrExpired == "item has expired"
ErrPanic == "panic"

\* The record of a completed call: the handler, its arguments (id, item,
\* params), what it returned (err, and the item of Get or the results of
\* Search) and, for Store and Delete, the entry the map held under the id
\* when the call began (old).  Items are kept as sequences of length 0 or 1.
NoCall == [op |-> "None", id |-> 0, item |-> <<>>, err |-> ErrNil,
           res |-> <<>>, params |-> <<>>, old |-> <<>>]

Call(op, id, item, err, res, params, old) ==
    [op |-> op, id |-> id, item |-> item, err |-> err, res |-> res,
     params |-> params, old |-> old]

Entry(m, id) == IF id \in DOMAIN m THEN <<m[id]>> ELSE <<>>

----------------------------------------------------------------------------
(* The Engine: data *)

\* What ctx.Err() returns once ctx.Done() is closed.
ErrCanceled == "context canceled"
ErrDeadline == "context deadline exceeded"

\* A document.ProcessorResult: DocumentID (a string, kept as the sequence of
\* its code points) and Content (the chunks).
Document(id, content) == [DocumentID |-> id, Content |-> content]

\* A SearchRequest.
SearchRequest(query, permissions, limit) ==
    [Query |-> query, Permissions |-> permissions, Limit |-> limit]

\* The state of a call of the Engine.  pc is "idle" (no call), "embed" and
\* "store" (IndexDocument: before e.embedder.Embed and before
\* e.vectorStore.Store of chunk i), "query" and "search" (Search: before
\* Embed and before vectorStore.Search) or "done" (the call has returned err
\* and results).  ctx is nil while ctx.Done() is open and ctx.Err() after.
\* embedCalls, failed, storeCalls, searchCalls, asked and logged are the
\* history of the call: the chunk indices passed to Embed (0 for the query
\* of Search), those whose Embed failed, the indices passed to Store with
\* what Store returned, what the calls of vectorStore.Search returned, the
\* Limit of the request as the caller passed it, the lines logged.
NoEngineCall ==
    [pc |-> "idle", op |-> "None", doc |-> Document(<<>>, <<>>),
     perms |-> {}, req |-> SearchRequest("", {}, 0), ctx |-> ErrNil, i |-> 0,
     embedding |-> <<>>, embedCalls |-> <<>>, failed |-> {},
     storeCalls |-> <<>>, searchCalls |-> <<>>, asked |-> 0, logged |-> 0,
     err |-> ErrNil, results |-> <<>>]

----------------------------------------------------------------------------
(* The lock, the ChunkedReader and the Processor: data *)

\* s.lock.  w is the goroutine that holds the lock for writing ("none" when
\* there is none), r the goroutines that hold it for reading, wq the
\* goroutines blocked in Lock and rq those blocked in RLock.
Unlocked == [w |-> "none", r |-> {}, wq |-> {}, rq |-> {}]

\* A ChunkedReader with its source: the bytes of the source and how many of
\* them Read has delivered (input, pos), chunkSize, the contents of
\* cr.buffer, cr.eof; and the call of ReadAll on it: its position
\* ("none", "loop", "done"), the chunks appended, the error returned and what
\* the last call of NextChunk returned (ret: the error and the chunk).
NoReader ==
    [input |-> <<>>, pos |-> 0, chunkSize |-> 1, buffer |-> <<>>,
     eof |-> FALSE, pc |-> "none", chunks |-> <<>>, err |-> ErrNil,
     ret |-> <<>>]

\* A call of chunkContent: the content, p.chunkSize, and the chunks returned
\* (a sequence holding the result once the call has returned).
NoChunking == [content |-> <<>>, chunkSize |-> 1, chunks |-> <<>>]

----------------------------------------------------------------------------
(* Similarity and ranking *)

\* A score is the float64 quotient dotProduct / (sqrt(normA) * sqrt(normB)),
\* kept as the pair of its integer numerator and positive denominator: the
\* components drawn are small integers, so every product, sum and float32
\* conversion below is exact and two quotients are equal as floats exactly
\* when they are equal as fractions.
Score(n, d) == [num |-> n, den |-> d]

ScoreLT(s, t) == s.num * t.den < t.num * s.den

ScoreEQ(s, t) == s.num * t.den = t.num * s.den

RECURSIVE SumTo(_, _, _)
SumTo(a, b, i) == IF i > Len(a) THEN 0 ELSE a[i] * b[i] + SumTo(a, b, i + 1)

\* sqrt "calculates" the root as float64(float32(x)): the value itself.
sqrt(x) == x

cosineSimilarity(a, b) ==
    IF Len(a) # Len(b) THEN Score(0, 1)
    ELSE LET dotProduct == SumTo(a, b, 1)
             normA == SumTo(a, a, 1)
             normB == SumTo(b, b, 1)
         IN  IF normA = 0 \/ normB = 0 THEN Score(0, 1)
             ELSE Score(dotProduct, sqrt(normA) * sqrt(normB))

Swap(s, i, j) == [s EXCEPT ![i] = s[j], ![j] = s[i]]

RECURSIVE sortInner(_, _, _)
sortInner(s, i, j) ==
    IF j > Len(s) THEN s
    ELSE sortInner(IF ScoreLT(s[i].score, s[j].score) THEN Swap(s, i, j) ELSE s,
                   i, j + 1)

RECURSIVE sortOuter(_, _)
sortOuter(s, i) ==
    IF i > Len(s) THEN s ELSE sortOuter(sortInner(s, i, i + 1), i + 1)

\* Faulty variant (sensitivity of C7): the sort stops after the first pass
\* of the outer loop.
sortScoredOnePass(s) == sortInner(s, 1, 2)

\* sortScored: the exchange sort of the scored slice, score descending.
sortScored(s) == sortOuter(s, 1)

\* Faulty variant (sensitivity of C4): an item without permissions passes
\* every filter.
hasPermissionOrNone(filter, item) ==
    \/ filter = {}
    \/ item.Permissions = {}
    \/ \E permission \in filter : permission \in item.Permissions

\* The permission test of Search: no filter, or some token of the filter is
\* a token of the item.
hasPermission(filter, item) ==
    filter = {} \/ \E permission \in filter : permission \in item.Permissions

\* The item is skipped by the scan of Search.
Skipped(item, params, t) ==
    Expired(item, t) \/ ~hasPermission(params.PermissionFilter, item)

\* The scan of Search over the map in the iteration order `order`.
RECURSIVE scan(_, _, _, _, _)
scan(m, order, params, t, k) ==
    IF k > Len(order) THEN <<>>
    ELSE LET item == m[order[k]]
             rest == scan(m, order, params, t, k + 1)
         IN  IF Skipped(item, params, t) THEN rest
             ELSE <<[item |-> item,
                     score |-> cosineSimilarity(params.Vector, item.Vector)]>>
                  \o rest

truncate(scored, limit) ==
    IF limit > 0 /\ Len(scored) > limit THEN SubSeq(scored, 1, limit)
    ELSE scored

SearchResult(s) ==
    [ID |-> s.item.ID, Content |-> s.item.Content, Score |-> s.score]

\* What Search returns on an open store holding m, iterated in `order`.
searchResults(m, order, params, t) ==
    LET scored == truncate(sortScored(scan(m, order, params, t, 1)),
                           params.Limit)
    IN  [i \in 1..Len(scored) |-> SearchResult(scored[i])]

\* The iteration orders of a map: the sequences listing each key once.
Orders(m) ==
    {o \in [1..Cardinality(DOMAIN m) -> DOMAIN m] :
        \A i, j \in DOMAIN o : i # j => o[i] # o[j]}

----------------------------------------------------------------------------
(* The handlers of QdrantStore: what each does between taking and releasing *)
(* s.lock, as a function of the state it finds.  acc says that the handler  *)
(* evaluated s.items (read it, ranged over it or assigned into it).         *)

Put(m, k, v) == [x \in DOMAIN m \cup {k} |-> IF x = k THEN v ELSE m[x]]

Remove(m, k) == [x \in DOMAIN m \ {k} |-> m[x]]

Empty == [x \in {} |-> x]

\* Faulty variant (sensitivity of C20): Store puts the item into a fresh map.
StoreBodyFresh(item) ==
    IF closed THEN [err |-> ErrClosed, items |-> items, acc |-> FALSE]
    ELSE IF itemsNil THEN [err |-> ErrPanic, items |-> items, acc |-> TRUE]
    ELSE [err |-> ErrNil, items |-> Put(Empty, item.ID, item), acc |-> TRUE]

\* Faulty variant (sensitivity of C10): Store keeps the expiry of the entry
\* it overwrites.
StoreBodyKeepsExpiry(item) ==
    IF closed THEN [err |-> ErrClosed, items |-> items, acc |-> FALSE]
    ELSE IF itemsNil THEN [err |-> ErrPanic, items |-> items, acc |-> TRUE]
    ELSE [err |-> ErrNil,
          items |-> Put(items, item.ID,
                        IF item.ID \in DOMAIN items
                        THEN [item EXCEPT !.ExpiresAt =
                                              items[item.ID].ExpiresAt]
                        ELSE item),
          acc |-> TRUE]

\* Faulty variant (sensitivity of C30): Store of a chunk removes the chunks
\* of the same document that have a higher index.
StoreBodyDropsHigher(item) ==
    IF closed THEN [err |-> ErrClosed, items |-> items, acc |-> FALSE]
    ELSE IF itemsNil THEN [err |-> ErrPanic, items |-> items, acc |-> TRUE]
    ELSE LET n == Len(item.ID)
             kept == {k \in DOMAIN items :
                         ~(/\ Len(k) = n
                           /\ SubSeq(k, 1, n - 1) = SubSeq(item.ID, 1, n - 1)
                           /\ k[n] > item.ID[n])}
         IN  [err |-> ErrNil,
              items |-> Put([k \in kept |-> items[k]], item.ID, item),
              acc |-> TRUE]

\* Store: s.items[item.ID] = item (an assignment into a nil map panics).
StoreBody(item) ==
    IF closed THEN [err |-> ErrClosed, items |-> items, acc |-> FALSE]
    ELSE IF itemsNil THEN [err |-> ErrPanic, items |-> items, acc |-> TRUE]
    ELSE [err |-> ErrNil, items |-> Put(items, item.ID, item), acc |-> TRUE]

\* Faulty variant (sensitivity of C5): Get without the expiry test.
GetBodyNoExpiry(id) ==
    IF closed
    THEN [err |-> ErrClosed, item |-> <<>>, items |-> items, acc |-> FALSE]
    ELSE IF id \notin DOMAIN items
         THEN [err |-> ErrNotFound, item |-> <<>>, items |-> items,
               acc |-> TRUE]
    ELSE [err |-> ErrNil, item |-> <<items[id]>>, items |-> items,
          acc |-> TRUE]

\* Faulty variant (sensitivity of C28): Get removes the expired item that it
\* finds.
GetBodyEvicts(id) ==
    IF closed
    THEN [err |-> ErrClosed, item |-> <<>>, items |-> items, acc |-> FALSE]
    ELSE IF id \notin DOMAIN items
         THEN [err |-> ErrNotFound, item |-> <<>>, items |-> items,
               acc |-> TRUE]
    ELSE IF Expired(items[id], now)
         THEN [err |-> ErrExpired, item |-> <<>>, items |-> Remove(items, id),
               acc |-> TRUE]
    ELSE [err |-> ErrNil, item |-> <<items[id]>>, items |-> items,
          acc |-> TRUE]

\* Get: a lookup (a nil map reads as empty), then the expiry test.  No
\* statement of Get assigns to s.items or into the map: items is the map as
\* found.
GetBody(id) ==
    IF closed
    THEN [err |-> ErrClosed, item |-> <<>>, items |-> items, acc |-> FALSE]
    ELSE IF id \notin DOMAIN items
         THEN [err |-> ErrNotFound, item |-> <<>>, items |-> items,
               acc |-> TRUE]
    ELSE IF Expired(items[id], now)
         THEN [err |-> ErrExpired, item |-> <<>>, items |-> items,
               acc |-> TRUE]
    ELSE [err |-> ErrNil, item |-> <<items[id]>>, items |-> items,
          acc |-> TRUE]

\* Faulty variant (sensitivity of C9): Delete reports an absent id as an
\* error.
DeleteBodyAbsentFails(id) ==
    IF closed THEN [err |-> ErrClosed, items |-> items, acc |-> FALSE]
    ELSE IF id \notin DOMAIN items
         THEN [err |-> ErrNotFound, items |-> items, acc |-> TRUE]
    ELSE [err |-> ErrNil, items |-> Remove(items, id), acc |-> TRUE]

\* Delete: delete(s.items, id) (a no-op on an absent key and on a nil map).
DeleteBody(id) ==
    IF closed THEN [err |-> ErrClosed, items |-> items, acc |-> FALSE]
    ELSE [err |-> ErrNil, items |-> Remove(items, id), acc |-> TRUE]

\* Faulty variant (sensitivity of C1): Search without the test of s.closed.
SearchBodyUnchecked(params, order) ==
    [err |-> ErrNil, res |-> searchResults(items, order, params, now),
     acc |-> TRUE]

\* Search, the map being iterated in `order`.
SearchBody(params, order) ==
    IF closed THEN [err |-> ErrClosed, res |-> <<>>, acc |-> FALSE]
    ELSE [err |-> ErrNil, res |-> searchResults(items, order, params, now),
          acc |-> TRUE]

\* Faulty variant (sensitivity of C3): Close without the early return on
\* s.closed.
CloseBodyAgain ==
    [err |-> ErrNil, closed |-> TRUE, closeSignals |-> closeSignals + 1,
     items |-> Empty, itemsNil |-> TRUE]

\* Close: the first call sets the flag, closes the channel and drops the map.
CloseBody ==
    IF closed
    THEN [err |-> ErrNil, closed |-> closed, closeSignals |-> closeSignals,
          items |-> items, itemsNil |-> itemsNil]
    ELSE [err |-> ErrNil, closed |-> TRUE, closeSignals |-> closeSignals + 1,
          items |-> Empty, itemsNil |-> TRUE]

\* Faulty variant (sensitivity of C11): the pass also deletes an item whose
\* expiry is the present instant, which has not passed yet.
cleanupAtExpiry ==
    [items |-> [x \in {k \in DOMAIN items :
                          IsZero(items[k].ExpiresAt)
                          \/ items[k].ExpiresAt > now} |-> items[x]],
     acc |-> TRUE]

\* Faulty variant (sensitivity of C6): the pass deletes every item that has
\* an expiry, passed or not.
cleanupEveryExpiry ==
    [items |-> [x \in {k \in DOMAIN items : IsZero(items[k].ExpiresAt)} |->
                   items[x]],
     acc |-> TRUE]

\* cleanupExpiredItems: one pass over s.items, deleting what has expired.
cleanupExpiredItems ==
    [items |-> [x \in {k \in DOMAIN items : ~Expired(items[k], now)} |->
                   items[x]],
     acc |-> TRUE]

Touch(acc) == nilAccess \/ (acc /\ itemsNil)

----------------------------------------------------------------------------
(* The effect of one completed call on the store, the record of the call    *)
(* and the history variables.                                               *)

DoStore(item) ==
    LET o == StoreBody(item)
    IN  /\ items' = o.items
        /\ last' = Call("Store", item.ID, <<item>>, o.err, <<>>, <<>>,
                        Entry(items, item.ID))
        /\ stored' = IF o.err = ErrNil
                     THEN [stored EXCEPT ![item.ID] = <<item>>] ELSE stored
        /\ nilAccess' = Touch(o.acc)
        /\ UNCHANGED <<itemsNil, closed, closeSignals, closeCalls>>

DoGet(id) ==
    LET o == GetBody(id)
    IN  /\ items' = o.items
        /\ last' = Call("Get", id, o.item, o.err, <<>>, <<>>, <<>>)
        /\ nilAccess' = Touch(o.acc)
        /\ UNCHANGED <<itemsNil, closed, closeSignals, closeCalls, stored>>

DoDelete(id) ==
    LET o == DeleteBody(id)
    IN  /\ items' = o.items
        /\ last' = Call("Delete", id, <<>>, o.err, <<>>, <<>>, Entry(items, id))
        /\ stored' = IF o.err = ErrNil
                     THEN [stored EXCEPT ![id] = <<>>] ELSE stored
        /\ nilAccess' = Touch(o.acc)
        /\ UNCHANGED <<itemsNil, closed, closeSignals, closeCalls>>

DoSearch(params, order) ==
    LET o == SearchBody(params, order)
    IN  /\ last' = Call("Search", 0, <<>>, o.err, o.res, <<params>>, <<>>)
        /\ nilAccess' = Touch(o.acc)
        /\ UNCHANGED <<items, itemsNil, closed, closeSignals, closeCalls,
                       stored>>

\* op is "Close", or "Cleanup" for Engine.Cleanup, which calls Close and
\* drops its result.
DoClose(op) ==
    LET o == CloseBody
    IN  /\ items' = o.items
        /\ itemsNil' = o.itemsNil
        /\ closed' = o.closed
        /\ closeSignals' = o.closeSignals
        /\ closeCalls' = IF closeCalls < 2 THEN closeCalls + 1 ELSE closeCalls
        /\ last' = Call(op, 0, <<>>, o.err, <<>>, <<>>, <<>>)
        /\ stored' = IF closed THEN stored
                     ELSE [x \in DOMAIN stored |-> <<>>]
        /\ UNCHANGED nilAccess

DoSweep ==
    LET o == cleanupExpiredItems
    IN  /\ items' = o.items
        /\ nilAccess' = Touch(o.acc)
        /\ UNCHANGED <<itemsNil, closed, closeSignals, closeCalls, last,
                       stored>>

----------------------------------------------------------------------------
(* Inputs *)

\* The items Store is called with in Spec: one payload with no expiry (the
\* zero Time) or with an expiry that the clock, which runs to MaxTime,
\* passes, and a second payload, different in every field, with no expiry.
Pool ==
    {Item(id, <<1, 0>>, "x", {"u1"}, e) : id \in Ids, e \in 1..(MaxTime - 1)}
    \cup {Item(id, <<1, 1>>, "x", {"u1"}, 0) : id \in Ids}
    \cup {Item(id, <<0, 1>>, "y", {"u2"}, 0) : id \in Ids}

SearchParams(vec, limit, filter) ==
    [Vector |-> vec, Limit |-> limit, PermissionFilter |-> filter]

\* The parameters Search is called with in Spec.
SpecParams ==
    {SearchParams(<<1, 0>>, 0, {}), SearchParams(<<1, 0>>, 1, {"u1"})}

----------------------------------------------------------------------------
(* Spec: every handler as one step *)

Init ==
    /\ items = Empty
    /\ itemsNil = FALSE
    /\ closed = FALSE
    /\ closeSignals = 0
    /\ closeCalls = 0
    /\ now = 1
    /\ sweepPc = "select"
    /\ pc = [p \in Callers |-> "idle"]
    /\ last = NoCall
    /\ stored = [id \in Ids |-> <<>>]
    /\ nilAccess = FALSE
    /\ eng = NoEngineCall
    /\ mu = Unlocked
    /\ cr = NoReader
    /\ proc = NoChunking

Store(item) ==
    UNCHANGED <<now, sweepPc, pc, eng, mu, cr, proc>> /\ DoStore(item)

Get(id) == UNCHANGED <<now, sweepPc, pc, eng, mu, cr, proc>> /\ DoGet(id)

Delete(id) == UNCHANGED <<now, sweepPc, pc, eng, mu, cr, proc>> /\ DoDelete(id)

Search(params, order) ==
    UNCHANGED <<now, sweepPc, pc, eng, mu, cr, proc>> /\ DoSearch(params, order)

Close == UNCHANGED <<now, sweepPc, pc, eng, mu, cr, proc>> /\ DoClose("Close")

\* Engine.Cleanup
Cleanup ==
    UNCHANGED <<now, sweepPc, pc, eng, mu, cr, proc>> /\ DoClose("Cleanup")

\* The clock advances.
Tick ==
    /\ now < MaxTime
    /\ now' = now + 1
    /\ UNCHANGED <<items, itemsNil, closed, closeSignals, closeCalls, sweepPc,
                   pc, last, stored, nilAccess, eng, mu, cr, proc>>

\* cleanupRoutine: select takes the ticker case (it may, whenever the ticker
\* has fired, also when closeChan is closed as well).
SweepTick ==
    /\ sweepPc = "select"
    /\ sweepPc' = "tick"
    /\ UNCHANGED <<items, itemsNil, closed, closeSignals, closeCalls, now, pc,
                   last, stored, nilAccess, eng, mu, cr, proc>>

\* cleanupRoutine: select takes the closeChan case and the goroutine returns.
SweepExit ==
    /\ sweepPc = "select"
    /\ closeSignals > 0
    /\ sweepPc' = "exit"
    /\ UNCHANGED <<items, itemsNil, closed, closeSignals, closeCalls, now, pc,
                   last, stored, nilAccess, eng, mu, cr, proc>>

\* cleanupRoutine: the call of cleanupExpiredItems, lock to unlock.
SweepPass ==
    /\ sweepPc = "tick"
    /\ sweepPc' = "select"
    /\ DoSweep
    /\ UNCHANGED <<now, pc, eng, mu, cr, proc>>

Next ==
    \/ \E item \in Pool : Store(item)
    \/ \E id \in Ids : Get(id)
    \/ \E id \in Ids : Delete(id)
    \/ \E order \in Orders(items) : \E params \in SpecParams :
           Search(params, order)
    \/ Close
    \/ Cleanup
    \/ Tick
    \/ SweepTick
    \/ SweepExit
    \/ SweepPass

Spec == Init /\ [][Next]_vars

----------------------------------------------------------------------------
(* SpecConc: callers and the sweep goroutine, with s.lock.  A caller takes  *)
(* the lock of a handler (Lock or RLock returns), then runs the handler's   *)
(* body and its deferred unlock; pc[p] names the handler whose lock p       *)
(* holds.  The state of the RWMutex is read off pc and sweepPc.             *)

Writers == {"Store", "Delete", "Close"}

Readers == {"Get", "Search"}

\* s.lock is held for writing, or by at least one reader.
WriterHeld == sweepPc = "pass" \/ \E p \in Callers : pc[p] \in Writers

ReaderHeld == \E p \in Callers : pc[p] \in Readers

\* The items, ids and parameters of the calls of SpecConc: one id, with no
\* expiry or with an expiry that has passed.
ConcPool == {Item(1, <<1, 0>>, "x", {"u1"}, e) : e \in {0, 1}}

ConcIds == {1}

ConcParams == {SearchParams(<<1, 0>>, 0, {})}

InitConc ==
    /\ items = Empty
    /\ itemsNil = FALSE
    /\ closed = FALSE
    /\ closeSignals = 0
    /\ closeCalls = 0
    /\ now = 2
    /\ sweepPc = "select"
    /\ pc = [p \in Callers |-> "idle"]
    /\ last = NoCall
    /\ stored = [id \in ConcIds |-> <<>>]
    /\ nilAccess = FALSE
    /\ eng = NoEngineCall
    /\ mu = Unlocked
    /\ cr = NoReader
    /\ proc = NoChunking

\* s.lock.Lock() returns in Store, Delete or Close.
Lock(p, op) ==
    /\ pc[p] = "idle"
    /\ ~WriterHeld /\ ~ReaderHeld
    /\ pc' = [pc EXCEPT ![p] = op]
    /\ UNCHANGED <<items, itemsNil, closed, closeSignals, closeCalls, now,
                   sweepPc, last, stored, nilAccess, eng, mu, cr, proc>>

\* s.lock.RLock() returns in Get or Search.
RLock(p, op) ==
    /\ pc[p] = "idle"
    /\ ~WriterHeld
    /\ pc' = [pc EXCEPT ![p] = op]
    /\ UNCHANGED <<items, itemsNil, closed, closeSignals, closeCalls, now,
                   sweepPc, last, stored, nilAccess, eng, mu, cr, proc>>

Return(p) ==
    /\ pc' = [pc EXCEPT ![p] = "idle"]
    /\ UNCHANGED <<now, sweepPc, eng, mu, cr, proc>>

CStore(p, item) == pc[p] = "Store" /\ DoStore(item) /\ Return(p)

CGet(p, id) == pc[p] = "Get" /\ DoGet(id) /\ Return(p)

CDelete(p, id) == pc[p] = "Delete" /\ DoDelete(id) /\ Return(p)

CSearch(p, params, order) ==
    pc[p] = "Search" /\ DoSearch(params, order) /\ Return(p)

CClose(p) == pc[p] = "Close" /\ DoClose("Close") /\ Return(p)

\* cleanupExpiredItems: s.lock.Lock() returns.
SweepLock ==
    /\ sweepPc = "tick"
    /\ ~WriterHeld /\ ~ReaderHeld
    /\ sweepPc' = "pass"
    /\ UNCHANGED <<items, itemsNil, closed, closeSignals, closeCalls, now,
                   pc, last, stored, nilAccess, eng, mu, cr, proc>>

\* cleanupExpiredItems: the pass and the deferred unlock.
SweepRun ==
    /\ sweepPc = "pass"
    /\ sweepPc' = "select"
    /\ DoSweep
    /\ UNCHANGED <<now, pc, eng, mu, cr, proc>>

NextConc ==
    \/ \E p \in Callers : \E op \in Writers : Lock(p, op)
    \/ \E p \in Callers : \E op \in Readers : RLock(p, op)
    \/ \E p \in Callers : \E item \in ConcPool : CStore(p, item)
    \/ \E p \in Callers : \E id \in ConcIds : CGet(p, id)
    \/ \E p \in Callers : \E id \in ConcIds : CDelete(p, id)
    \/ \E p \in Callers : \E order \in Orders(items) :
           \E params \in ConcParams : CSearch(p, params, order)
    \/ \E p \in Callers : CClose(p)
    \/ SweepTick
    \/ SweepExit
    \/ SweepLock
    \/ SweepRun

SpecConc == InitConc /\ [][NextConc]_vars

----------------------------------------------------------------------------
(* SpecSearch: Search applied once to each store content, parameter and     *)
(* iteration order of the map.                                              *)

\* Vector, content, permissions and expiry of the items of SpecSearch: three
\* different scores against the query <<1, 0>> (and equal scores, when two
\* ids hold the same payload), permission sets of no, one and two tokens,
\* no expiry, an expiry that has not passed and one that has.
SearchPayloads ==
    {[vec |-> <<1, 0>>,  content |-> "a", perms |-> {"u1"},       exp |-> 0],
     [vec |-> <<-1, 0>>, content |-> "b", perms |-> {},           exp |-> 0],
     [vec |-> <<1, 1>>,  content |-> "c", perms |-> {"u2"},       exp |-> 2],
     [vec |-> <<1, 0>>,  content |-> "e", perms |-> {"u1", "u2"}, exp |-> 1]}

\* The contents of the map that Store calls can build from them.
SearchMaps ==
    UNION {{[k \in D |-> Item(k, f[k].vec, f[k].content, f[k].perms, f[k].exp)] :
               f \in [D -> SearchPayloads]} : D \in SUBSET SIds}

AllParams ==
    {SearchParams(v, l, f) :
        v \in {<<1, 0>>, <<0, 0>>}, l \in (-1)..MaxLimit,
        f \in SUBSET {"u1", "u2"}}

InitSearch ==
    /\ items \in SearchMaps
    /\ itemsNil = FALSE
    /\ closed = FALSE
    /\ closeSignals = 0
    /\ closeCalls = 0
    /\ now = 2        \* an expiry of 1 has passed, an expiry of 2 has not
    /\ sweepPc = "select"
    /\ pc = [p \in Callers |-> "idle"]
    /\ last = NoCall
    /\ stored = [id \in SIds |-> Entry(items, id)]
    /\ nilAccess = FALSE
    /\ eng = NoEngineCall
    /\ mu = Unlocked
    /\ cr = NoReader
    /\ proc = NoChunking

\* One call of Search on the store as drawn.
SearchOnce ==
    /\ last = NoCall
    /\ \E order \in Orders(items) : \E params \in AllParams :
           Search(params, order)

SpecSearch == InitSearch /\ [][SearchOnce]_vars

----------------------------------------------------------------------------
(* SpecCosine: on the store as NewEngine configures it, one call of Store   *)
(* and one call of Search, for every pair of item vector and query vector   *)
(* drawn.                                                                   *)

MaxDim == 2        \* vectors of 1..MaxDim components
MaxComp == 2       \* components in -MaxComp..MaxComp

\* Config.VectorSize as NewEngine sets it, embedder.VectorSize(): the number
\* of components of an embedding, of which the model keeps two of the 384.
VectorSize == 2

\* The []float32 values drawn: every length, sign and norm within the bounds,
\* the zero vectors among them.
Vectors == UNION {[1..n -> (-MaxComp)..MaxComp] : n \in 1..MaxDim}

\* Store of an item with one of the vectors, under the id 1.
CosineStore ==
    /\ last = NoCall
    /\ \E v \in Vectors : Store(Item(1, v, "x", {}, 0))

\* One call of Search, which scores the item against the query.
CosineOnce ==
    /\ last.op = "Store"
    /\ \E v \in Vectors : Search(SearchParams(v, 0, {}), <<1>>)

SpecCosine == Init /\ [][CosineStore \/ CosineOnce]_vars

----------------------------------------------------------------------------
(* SpecChunk: Processor.chunkContent applied once to every content and      *)
(* chunk size drawn.  A string is the sequence of its characters.           *)

MaxContent == 6      \* characters of a content
MaxChunkWords == 3   \* p.chunkSize is drawn from 1..MaxChunkWords

\* unicode.IsSpace for the characters drawn.
Space == {" ", "\t"}

\* strings.Fields: the maximal runs of non-space characters, in order.  w is
\* the run being read.
RECURSIVE fieldsFrom(_, _, _)
fieldsFrom(s, i, w) ==
    IF i > Len(s) THEN (IF w = <<>> THEN <<>> ELSE <<w>>)
    ELSE IF s[i] \in Space
         THEN (IF w = <<>> THEN <<>> ELSE <<w>>) \o fieldsFrom(s, i + 1, <<>>)
         ELSE fieldsFrom(s, i + 1, Append(w, s[i]))

\* strings.Join
RECURSIVE Join(_, _)
Join(elems, sep) ==
    IF elems = <<>> THEN <<>>
    ELSE IF Len(elems) = 1 THEN elems[1]
         ELSE elems[1] \o sep \o Join(Tail(elems), sep)

\* Faulty variant (sensitivity of C24): the words left over after the last
\* full chunk are dropped.
RECURSIVE chunkLoopFull(_, _, _)
chunkLoopFull(words, chunkSize, i) ==
    IF i + chunkSize > Len(words) THEN <<>>
    ELSE <<Join(SubSeq(words, i + 1, i + chunkSize), <<" ">>)>>
         \o chunkLoopFull(words, chunkSize, i + chunkSize)

\* The loop of chunkContent from index i (counted from 0, as in the code).
RECURSIVE chunkLoop(_, _, _)
chunkLoop(words, chunkSize, i) ==
    IF ~(i < Len(words)) THEN <<>>
    ELSE LET end == IF i + chunkSize > Len(words) THEN Len(words)
                    ELSE i + chunkSize
         IN  <<Join(SubSeq(words, i + 1, end), <<" ">>)>>
             \o chunkLoop(words, chunkSize, i + chunkSize)

chunkContent(content, chunkSize) ==
    chunkLoop(fieldsFrom(content, 1, <<>>), chunkSize, 0)

\* The Processor is built with chunkSize 1000; the model draws the field
\* from 1..MaxChunkWords, so that contents of a few words fill several
\* chunks.
InitChunk ==
    /\ items = Empty
    /\ itemsNil = FALSE
    /\ closed = FALSE
    /\ closeSignals = 0
    /\ closeCalls = 0
    /\ now = 1
    /\ sweepPc = "select"
    /\ pc = [p \in Callers |-> "idle"]
    /\ last = NoCall
    /\ stored = [id \in Ids |-> <<>>]
    /\ nilAccess = FALSE
    /\ eng = NoEngineCall
    /\ mu = Unlocked
    /\ cr = NoReader
    /\ \E n \in 0..MaxContent : \E content \in [1..n -> {"a", "b"} \cup Space] :
           \E size \in 1..MaxChunkWords :
               proc = [NoChunking EXCEPT !.content = content,
                                         !.chunkSize = size]

\* The call of chunkContent returns.
ChunkContent ==
    /\ proc.chunks = <<>>
    /\ proc' = [proc EXCEPT
                   !.chunks = <<chunkContent(proc.content, proc.chunkSize)>>]
    /\ UNCHANGED <<items, itemsNil, closed, closeSignals, closeCalls, now,
                   sweepPc, pc, last, stored, nilAccess, eng, mu, cr>>

SpecChunk == InitChunk /\ [][ChunkContent]_vars

----------------------------------------------------------------------------
(* SpecAlias: Spec, with the callers writing to the items they share with   *)
(* the store.  Store keeps the *Item it is passed and Get returns the       *)
(* pointer the map holds, so for every id of the map some caller holds a    *)
(* pointer to the very Item the map holds; IndexDocument passes its         *)
(* caller's Metadata map and userPermissions slice on in the same way.      *)

\* A caller assigns to the fields Content and Permissions of the Item that
\* it passed to Store, or was returned by Get, under the id.  The caller
\* holds no lock; the write happens between two calls, not during one.
CallerWrites(id, content, permissions) ==
    /\ id \in DOMAIN items
    /\ items' = [items EXCEPT ![id] = [@ EXCEPT !.Content = content,
                                                !.Permissions = permissions]]
    /\ items' # items
    /\ UNCHANGED <<itemsNil, closed, closeSignals, closeCalls, now, sweepPc,
                   pc, last, stored, nilAccess, eng, mu, cr, proc>>

SpecAlias ==
    /\ Init
    /\ [][\/ Next
          \/ \E id \in Ids : \E content \in {"x", "w"} :
                 \E permissions \in {{"u1"}, {"u2"}} :
                     CallerWrites(id, content, permissions)]_vars

----------------------------------------------------------------------------
(* SpecReader: ReadAll on a ChunkedReader over a finite input.  cr.pc is    *)
(* the position of ReadAll: "call" before a call of NextChunk, "loop"       *)
(* inside NextChunk's loop, "done" when ReadAll has returned.               *)

MaxInput == 3        \* bytes of the source
MaxChunkSize == 2    \* chunkSize is drawn from 1..MaxChunkSize
MaxReadChunks == 4   \* ReadAll is followed up to this many chunks

ErrEOF == "EOF"
ErrRead == "read error"

\* NewChunkedReader(reader, chunkSize), and ReadAll called on it.
NewChunkedReader(input, chunkSize) ==
    [NoReader EXCEPT !.input = input, !.chunkSize = chunkSize, !.pc = "call"]

InitReader ==
    /\ items = Empty
    /\ itemsNil = FALSE
    /\ closed = FALSE
    /\ closeSignals = 0
    /\ closeCalls = 0
    /\ now = 1
    /\ sweepPc = "select"
    /\ pc = [p \in Callers |-> "idle"]
    /\ last = NoCall
    /\ stored = [id \in Ids |-> <<>>]
    /\ nilAccess = FALSE
    /\ eng = NoEngineCall
    /\ mu = Unlocked
    /\ proc = NoChunking
    /\ \E n \in 0..MaxInput : \E input \in [1..n -> {"a", "b"}] :
           \E chunkSize \in 1..MaxChunkSize :
               cr = NewChunkedReader(input, chunkSize)

\* NextChunk returns (chunk, nil) to ReadAll, which appends a copy of the
\* chunk and calls again.
chunkReturned(r, buffer) ==
    [r EXCEPT !.buffer = buffer, !.ret = <<buffer>>,
              !.chunks = Append(@, buffer), !.pc = "call"]

\* NextChunk returns (nil, err) to ReadAll, which returns the chunks on
\* io.EOF and (nil, err) on any other error.
errorReturned(r, err) ==
    [r EXCEPT !.ret = <<>>, !.pc = "done",
              !.err = IF err = ErrEOF THEN ErrNil ELSE err,
              !.chunks = IF err = ErrEOF THEN @ ELSE <<>>]

\* NextChunk: the test for an earlier EOF, then the reset of a full buffer.
NextChunkCall ==
    /\ cr.pc = "call"
    /\ Len(cr.chunks) < MaxReadChunks
    /\ cr' = IF cr.eof /\ Len(cr.buffer) = 0 THEN errorReturned(cr, ErrEOF)
             ELSE [cr EXCEPT !.pc = "loop",
                             !.buffer = IF Len(@) >= cr.chunkSize THEN <<>>
                                        ELSE @]
    /\ UNCHANGED <<items, itemsNil, closed, closeSignals, closeCalls, now,
                   sweepPc, pc, last, stored, nilAccess, eng, mu, proc>>

\* What cr.reader.Read(temp) may return on a source with `left` bytes left:
\* n of them, 0 < n <= len(temp), with a nil error or, when they are the
\* last, with io.EOF; (0, io.EOF) at the end of the source; (0, err) when
\* the source fails.
ReadResults(want, left) ==
    {[n |-> n, err |-> ErrNil] : n \in 1..(IF want < left THEN want ELSE left)}
    \cup (IF left <= want THEN {[n |-> left, err |-> ErrEOF]} ELSE {})
    \cup {[n |-> 0, err |-> ErrRead]}

\* One turn of NextChunk's loop: a Read, the write into the buffer, and the
\* handling of the error.
Read ==
    /\ cr.pc = "loop"
    /\ Len(cr.buffer) < cr.chunkSize /\ ~cr.eof
    /\ \E res \in ReadResults(cr.chunkSize - Len(cr.buffer),
                              Len(cr.input) - cr.pos) :
           LET buffer == cr.buffer
                             \o SubSeq(cr.input, cr.pos + 1, cr.pos + res.n)
               r == [cr EXCEPT !.pos = @ + res.n, !.buffer = buffer]
           IN  cr' = IF res.err = ErrNil THEN r
                     ELSE IF res.err = ErrEOF
                          THEN IF Len(buffer) > 0
                               THEN chunkReturned([r EXCEPT !.eof = TRUE],
                                                  buffer)
                               ELSE errorReturned([r EXCEPT !.eof = TRUE],
                                                  ErrEOF)
                     ELSE errorReturned(r, res.err)
    /\ UNCHANGED <<items, itemsNil, closed, closeSignals, closeCalls, now,
                   sweepPc, pc, last, stored, nilAccess, eng, mu, proc>>

\* The loop's condition fails: NextChunk returns the buffer's contents.
NextChunkReturn ==
    /\ cr.pc = "loop"
    /\ ~(Len(cr.buffer) < cr.chunkSize /\ ~cr.eof)
    /\ cr' = chunkReturned(cr, cr.buffer)
    /\ UNCHANGED <<items, itemsNil, closed, closeSignals, closeCalls, now,
                   sweepPc, pc, last, stored, nilAccess, eng, mu, proc>>

SpecReader ==
    InitReader /\ [][NextChunkCall \/ Read \/ NextChunkReturn]_vars

----------------------------------------------------------------------------
(* Vocabulary of the properties *)

\* The error kinds of the design: StoreClosed, and ItemNotFound for a Get of
\* an absent or an expired id.
StoreClosed(e) == e = ErrClosed

ItemNotFound(e) == e \in {ErrNotFound, ErrExpired}

\* The item's expiry is set and has passed at time t.
ExpiryPassed(item, t) == item.ExpiresAt # 0 /\ item.ExpiresAt < t

\* The step is a call of the store's interface; the record of the call in
\* the new state names its arguments.
StoreStep == last'.op = "Store" /\ Store(last'.item[1])

GetStep == last'.op = "Get" /\ Get(last'.id)

DeleteStep == last'.op = "Delete" /\ Delete(last'.id)

SearchStep ==
    /\ last'.op = "Search"
    /\ UNCHANGED <<now, sweepPc, pc, items>>
    /\ \E order \in Orders(items) : Search(last'.params[1], order)

ApiStep == StoreStep \/ GetStep \/ DeleteStep \/ SearchStep

----------------------------------------------------------------------------
(* C1 *)

\* C1: on a closed store every Store, Get, Delete and Search fails with
\* StoreClosed, returns nothing and leaves the released collection as it is.
C1_ClosedStoreRejects ==
    [][(closed /\ ApiStep) =>
          /\ StoreClosed(last'.err)
          /\ last'.res = <<>>
          /\ (last'.op = "Get" => last'.item = <<>>)
          /\ items' = items /\ itemsNil' = itemsNil
          /\ closed' /\ closeSignals' = closeSignals]_vars

\* A Search has just failed on the closed store.
C1_Witness ==
    closed /\ itemsNil /\ last.op = "Search" /\ StoreClosed(last.err)

----------------------------------------------------------------------------
(* C3 *)

CloseStep == Close \/ Cleanup

\* C3: Close (and Engine.Cleanup, which calls it) on a closed store returns
\* nil, does not close the channel again and changes nothing of the store;
\* the channel is closed at most once in all.
C3_CloseIdempotent ==
    [][/\ (closed /\ CloseStep) =>
             /\ last'.err = ErrNil
             /\ UNCHANGED <<items, itemsNil, closed, closeSignals, sweepPc,
                            stored, now>>
       /\ closeSignals' <= 1]_vars

\* Engine.Cleanup has returned as the second or a later Close.
C3_Witness ==
    closeCalls = 2 /\ last.op = "Cleanup" /\ closed /\ closeSignals = 1

----------------------------------------------------------------------------
(* C5 *)

\* C5: Get of an id whose item's expiry has passed fails with ItemNotFound
\* and returns no item, and no result of Search is an item whose expiry has
\* passed, whether or not a sweep pass has removed the item yet.
C5_ExpiredNeverReturned ==
    [][/\ (~closed /\ GetStep) =>
             LET id == last'.id
             IN  (id \in DOMAIN items /\ ExpiryPassed(items[id], now)) =>
                     ItemNotFound(last'.err) /\ last'.item = <<>>
       /\ (~closed /\ SearchStep) =>
             \A i \in DOMAIN last'.res :
                 /\ last'.res[i].ID \in DOMAIN items
                 /\ ~ExpiryPassed(items[last'.res[i].ID], now)]_vars

\* Get has just failed on an item that is still in the map, its expiry
\* passed: no sweep pass has removed it.
C5_Witness ==
    /\ last.op = "Get" /\ ItemNotFound(last.err) /\ ~closed
    /\ last.id \in DOMAIN items
    /\ ExpiryPassed(items[last.id], now)
    /\ sweepPc = "select"

----------------------------------------------------------------------------
(* C6 *)

\* C6: while the store is open, Get of an id returns the item of the last
\* successful Store of that id, equal in every field, as long as no Delete
\* or Store of that id came after it and its expiry has not passed; no call
\* on another id and no sweep pass changes that.
C6_StoreRoundTrip ==
    [][(~closed /\ GetStep) =>
          LET id == last'.id
          IN  (stored[id] # <<>> /\ ~ExpiryPassed(stored[id][1], now)) =>
                  last'.err = ErrNil /\ last'.item = stored[id]]_vars

\* Get has returned an item that has an expiry, after the clock advanced
\* and while the map holds another id as well.
C6_Witness ==
    /\ last.op = "Get" /\ last.err = ErrNil /\ last.item = stored[last.id]
    /\ last.item[1].ExpiresAt = MaxTime - 1 /\ now = MaxTime - 1 /\ now > 1
    /\ Cardinality(DOMAIN items) > 1

----------------------------------------------------------------------------
(* C9 *)

\* C9: Delete on an open store returns nil; afterwards the id is absent (and
\* Get of an absent id fails with ItemNotFound), every other id holds the
\* item it held, and nothing changes when the id was absent.
C9_DeleteFrame ==
    [][/\ (~closed /\ DeleteStep) =>
             LET id == last'.id
             IN  /\ last'.err = ErrNil
                 /\ DOMAIN items' = DOMAIN items \ {id}
                 /\ \A k \in DOMAIN items' : items'[k] = items[k]
                 /\ id \notin DOMAIN items => items' = items
                 /\ UNCHANGED <<itemsNil, closed, closeSignals>>
       /\ (~closed /\ GetStep) =>
             (last'.id \notin DOMAIN items =>
                 ItemNotFound(last'.err) /\ last'.item = <<>>)]_vars

\* Delete has removed an item and left another one in the map.
C9_Witness ==
    /\ last.op = "Delete" /\ last.err = ErrNil /\ last.old # <<>>
    /\ last.id \notin DOMAIN items /\ DOMAIN items # {}

----------------------------------------------------------------------------
(* C10 *)

\* C10: a successful Store leaves under the item's id exactly the item it
\* was given, in every field, and the number of items unchanged when the id
\* was present; every entry of the map is kept under its own id, so no two
\* entries have the same id.
C10_StoreUpsert ==
    [][/\ (~closed /\ StoreStep) =>
             LET item == last'.item[1]
             IN  /\ last'.err = ErrNil
                 /\ item.ID \in DOMAIN items' /\ items'[item.ID] = item
                 /\ item.ID \in DOMAIN items =>
                        Cardinality(DOMAIN items') = Cardinality(DOMAIN items)
       /\ \A k \in DOMAIN items' : items'[k].ID = k]_vars

\* Store has replaced an item that differed in vector, content, permissions
\* and expiry.
C10_Witness ==
    /\ last.op = "Store" /\ last.err = ErrNil /\ last.old # <<>>
    /\ last.old[1].Content # last.item[1].Content
    /\ last.old[1].Vector # last.item[1].Vector
    /\ last.old[1].Permissions # last.item[1].Permissions
    /\ last.old[1].ExpiresAt # last.item[1].ExpiresAt
    /\ items[last.id] = last.item[1]

----------------------------------------------------------------------------
(* C4, C7, C8: properties of one Search, checked under SpecSearch *)

\* The ids Search may return for params: the items whose expiry has not
\* passed and, under a non-empty filter, whose permissions share a token
\* with the filter.
EligibleIds(params) ==
    {k \in DOMAIN items :
        /\ ~ExpiryPassed(items[k], now)
        /\ \/ params.PermissionFilter = {}
           \/ items[k].Permissions \cap params.PermissionFilter # {}}

ResultIds(res) == {res[i].ID : i \in DOMAIN res}

Min(a, b) == IF a < b THEN a ELSE b

\* C4: under a non-empty filter every result is an item whose permissions
\* share a token with the filter; under an empty filter the results are
\* items whose expiry has not passed, and all of them when the limit cuts
\* nothing off.
C4_PermissionFilter ==
    last.op = "Search" =>
        LET params == last.params[1]
            F == params.PermissionFilter
            live == {k \in DOMAIN items : ~ExpiryPassed(items[k], now)}
        IN  /\ last.err = ErrNil
            /\ ResultIds(last.res) \subseteq live
            /\ F # {} =>
                   \A i \in DOMAIN last.res :
                       items[last.res[i].ID].Permissions \cap F # {}
            /\ (F = {} /\ (params.Limit <= 0
                           \/ params.Limit >= Cardinality(live))) =>
                   ResultIds(last.res) = live

\* Search with the filter {"u1"} has returned an item and has left out an
\* item of permissions {"u2"} and an item without permissions.
C4_Witness ==
    /\ last.op = "Search" /\ last.params[1].PermissionFilter = {"u1"}
    /\ last.params[1].Limit = 0
    /\ Len(last.res) = 1
    /\ \E k \in DOMAIN items : items[k].Permissions = {"u2"}
                               /\ ~ExpiryPassed(items[k], now)
    /\ \E k \in DOMAIN items : items[k].Permissions = {}

\* C7: with a limit > 0 Search returns min(limit, number of eligible items)
\* results, each an eligible item with its own score, none twice, and no
\* eligible item left out scores higher than a returned one.
C7_LimitTopK ==
    (last.op = "Search" /\ last.params[1].Limit > 0) =>
        LET params == last.params[1]
            E == EligibleIds(params)
            score(k) == cosineSimilarity(params.Vector, items[k].Vector)
        IN  /\ Len(last.res) <= params.Limit
            /\ Len(last.res) = Min(params.Limit, Cardinality(E))
            /\ ResultIds(last.res) \subseteq E
            /\ Cardinality(ResultIds(last.res)) = Len(last.res)
            /\ \A i \in DOMAIN last.res :
                   last.res[i].Score = score(last.res[i].ID)
            /\ \A k \in E \ ResultIds(last.res) :
                   \A i \in DOMAIN last.res :
                       ~ScoreLT(last.res[i].Score, score(k))

\* Search with limit 2 has left out the lowest of three eligible items of
\* three different scores.
C7_Witness ==
    /\ last.op = "Search" /\ last.params[1].Limit = 2 /\ Len(last.res) = 2
    /\ Cardinality(EligibleIds(last.params[1])) = 3
    /\ ScoreLT(last.res[2].Score, last.res[1].Score)
    /\ \E k \in EligibleIds(last.params[1]) \ ResultIds(last.res) :
           ScoreLT(cosineSimilarity(last.params[1].Vector, items[k].Vector),
                   last.res[2].Score)

\* C8: the results are in the order score descending, id ascending among
\* equal scores, and are the same sequence for every iteration order of the
\* map.
C8_TotalOrder ==
    last.op = "Search" =>
        /\ \A i, j \in DOMAIN last.res :
               i < j =>
                   \/ ScoreLT(last.res[j].Score, last.res[i].Score)
                   \/ /\ ScoreEQ(last.res[j].Score, last.res[i].Score)
                      /\ last.res[i].ID < last.res[j].ID
        /\ \A order \in Orders(items) :
               searchResults(items, order, last.params[1], now) = last.res

----------------------------------------------------------------------------
(* C2, checked under SpecConc *)

\* C2: in no interleaving of Close with the calls and with the sweep does a
\* handler or a sweep pass evaluate s.items after Close has set it to nil.
C2_NoAccessAfterRelease == ~nilAccess

----------------------------------------------------------------------------
(* C11 *)

\* The step is one pass of cleanupExpiredItems (in Spec, lock to unlock).
SweepStep == sweepPc = "tick" /\ sweepPc' = "select"

\* C11: one pass of the sweep removes every item whose expiry is set and
\* has passed at the time of the pass, and nothing else: an item with no
\* expiry or with an expiry that has not passed stays, unchanged.
C11_SweepExact ==
    [][SweepStep =>
          /\ DOMAIN items' =
                 {k \in DOMAIN items : ~ExpiryPassed(items[k], now)}
          /\ \A k \in DOMAIN items' : items'[k] = items[k]]_vars

\* On the open store a pass has removed a stored item (its last Store was
\* not followed by a Delete), and an item whose expiry is the present
\* instant is still there.
C11_Witness ==
    /\ ~closed /\ sweepPc = "select"
    /\ \E id \in Ids : stored[id] # <<>> /\ id \notin DOMAIN items
    /\ \E k \in DOMAIN items : items[k].ExpiresAt = now

----------------------------------------------------------------------------
(* C12 *)

\* C12: once Close has signalled shutdown the sweep does not acquire s.lock
\* again: the sweep goroutine never holds the lock for a pass while the
\* closed flag is set.  (Close sets the flag holding the lock for writing,
\* so a pass that holds the lock with the flag set took it after Close.)
C12_NoSweepAfterClose == ~(closed /\ sweepPc = "pass")

----------------------------------------------------------------------------
(* C13 *)

\* C13: Close joins the sweep goroutine: whenever a call of Close has
\* returned, cleanupRoutine has returned.
C13_SweepJoined == closeCalls > 0 => sweepPc = "exit"

----------------------------------------------------------------------------
(* The Engine: Embed, IndexDocument and Search *)

\* e.ttl, in units of the clock: an item stored now expires one unit later.
ttl == 1

\* The value of NewEmbedder's placeholder model on a text: a vector fixed by
\* the text (the generator is seeded with it) and of norm 1.  Of its 384
\* components two are kept, and the texts drawn get different vectors.
embedding(text) ==
    IF text = "x" THEN <<1, 0>> ELSE IF text = "y" THEN <<0, 1>>
    ELSE <<-1, 0>>

\* Embedder.Embed: ctx.Err() and no vector when ctx.Done() is closed, the
\* vector otherwise.
Embed(ctx, text) ==
    IF ctx # ErrNil THEN [vec |-> <<>>, err |-> ctx]
    ELSE [vec |-> <<embedding(text)>>, err |-> ErrNil]

\* string(i) of an int i: the UTF-8 encoding of the code point i, and of
\* U+FFFD when i is not a valid code point (a surrogate half, or beyond
\* U+10FFFF).  It is the one code point of the result that is kept.
runeString(i) ==
    IF i < 0 \/ i > 1114111 \/ (i >= 55296 /\ i <= 57343) THEN <<65533>>
    ELSE <<i>>

\* chunkID := doc.DocumentID + "-" + string(i)
chunkID(documentID, i) == documentID \o <<45>> \o runeString(i)

\* The range loop of IndexDocument goes on to the next chunk, or the call
\* returns nil after the last one.
nextChunk(e) ==
    IF e.i + 1 < Len(e.doc.Content)
    THEN [e EXCEPT !.i = e.i + 1, !.pc = "embed", !.embedding = <<>>]
    ELSE [e EXCEPT !.pc = "done", !.err = ErrNil, !.embedding = <<>>]

\* Faulty variant (sensitivity of C14): IndexDocument returns the error of
\* Embed.
IndexEmbedFatal(e) ==
    LET r == Embed(e.ctx, e.doc.Content[e.i + 1])
        f == [e EXCEPT !.embedCalls = Append(@, e.i)]
    IN  IF r.err # ErrNil
        THEN [f EXCEPT !.failed = @ \cup {e.i}, !.logged = @ + 1,
                       !.pc = "done", !.err = r.err]
        ELSE [f EXCEPT !.embedding = r.vec, !.pc = "store"]

\* IndexDocument, the call of Embed for chunk i: an error is logged and the
\* loop continues.
IndexEmbed(e) ==
    LET r == Embed(e.ctx, e.doc.Content[e.i + 1])
        f == [e EXCEPT !.embedCalls = Append(@, e.i)]
    IN  IF r.err # ErrNil
        THEN nextChunk([f EXCEPT !.failed = @ \cup {e.i}, !.logged = @ + 1])
        ELSE [f EXCEPT !.embedding = r.vec, !.pc = "store"]

\* The item IndexDocument passes to Store for chunk i at time t.
IndexItem(e, t) ==
    Item(chunkID(e.doc.DocumentID, e.i), e.embedding[1],
         e.doc.Content[e.i + 1], e.perms, t + ttl)

\* Faulty variant (sensitivity of C15): the error of Store is logged and the
\* loop continues.
IndexStoredContinue(e, err) ==
    LET f == [e EXCEPT !.storeCalls = Append(@, [i |-> e.i, err |-> err])]
    IN  IF err # ErrNil
        THEN nextChunk([f EXCEPT !.logged = @ + 1])
        ELSE nextChunk(f)

\* IndexDocument, after Store has returned err for chunk i: an error is
\* logged and returned.
IndexStored(e, err) ==
    LET f == [e EXCEPT !.storeCalls = Append(@, [i |-> e.i, err |-> err])]
    IN  IF err # ErrNil
        THEN [f EXCEPT !.logged = @ + 1, !.pc = "done", !.err = err,
                       !.embedding = <<>>]
        ELSE nextChunk(f)

\* The limit Engine.Search writes into the request when it is not positive.
DefaultLimit == 10

\* Faulty variant (sensitivity of C17): the limit is passed on as it came.
searchLimitAsIs(limit) == limit

\* if req.Limit <= 0 { req.Limit = 10 }
searchLimit(limit) == IF limit <= 0 THEN DefaultLimit ELSE limit

\* Faulty variant (sensitivity of C18): Search goes on to query the store
\* with a zero vector when Embed has failed.
SearchEmbedIgnoresErr(e) ==
    LET r == Embed(e.ctx, e.req.Query)
        f == [e EXCEPT !.embedCalls = Append(@, 0)]
    IN  IF r.err # ErrNil
        THEN [f EXCEPT !.failed = {0}, !.embedding = <<<<0, 0>>>>,
                       !.req.Limit = searchLimit(@), !.pc = "search"]
        ELSE [f EXCEPT !.embedding = r.vec, !.req.Limit = searchLimit(@),
                       !.pc = "search"]

\* Engine.Search, the call of Embed for the query and the default of the
\* limit: an error of Embed is returned with no results.
SearchEmbed(e) ==
    LET r == Embed(e.ctx, e.req.Query)
        f == [e EXCEPT !.embedCalls = Append(@, 0)]
    IN  IF r.err # ErrNil
        THEN [f EXCEPT !.failed = {0}, !.pc = "done", !.err = r.err,
                       !.results = <<>>]
        ELSE [f EXCEPT !.embedding = r.vec, !.req.Limit = searchLimit(@),
                       !.pc = "search"]

\* The SearchParams Engine.Search passes to the store.
EngineParams(e) ==
    SearchParams(e.embedding[1], e.req.Limit, e.req.Permissions)

\* A SearchResult of the Engine: the result of the store without its ID.
EngineResult(r) == [ChunkContent |-> r.Content, Score |-> r.Score]

\* Engine.Search, after vectorStore.Search has returned (res, err): an error
\* is returned with no results, the results are converted one by one.
SearchReturned(e, err, res) ==
    LET f == [e EXCEPT !.searchCalls = Append(@, err), !.embedding = <<>>]
    IN  IF err # ErrNil
        THEN [f EXCEPT !.pc = "done", !.err = err, !.results = <<>>]
        ELSE [f EXCEPT !.pc = "done", !.err = ErrNil,
                       !.results = [i \in 1..Len(res) |->
                                       EngineResult(res[i])]]

----------------------------------------------------------------------------
(* SpecEngine: one caller of the Engine at a time, whose call runs step by  *)
(* step (a call of Embed, a call of the store), while its context may be    *)
(* cancelled or run out and another goroutine may call Engine.Cleanup.  The *)
(* clock stands still: no item indexed expires.                             *)

MaxChunks == 3     \* chunks of the longest document of SpecEngine

\* The first n chunks of a text.
Chunks(n) == [j \in 1..n |-> IF j % 2 = 1 THEN "x" ELSE "y"]

\* The documents indexed: "a" with no to MaxChunks chunks, "b" with one.
Docs ==
    {Document(<<97>>, Chunks(n)) : n \in 0..MaxChunks}
    \cup {Document(<<98>>, Chunks(1))}

\* The ids IndexDocument can give to their chunks.
EngineIds ==
    {chunkID(d.DocumentID, i) : d \in Docs, i \in 0..(MaxChunks - 1)}

\* The requests of SpecEngine.
EngineRequests ==
    {SearchRequest("x", {}, 0), SearchRequest("y", {"u1"}, 1),
     SearchRequest("x", {"u2"}, 2)}

InitEngine ==
    /\ items = Empty
    /\ itemsNil = FALSE
    /\ closed = FALSE
    /\ closeSignals = 0
    /\ closeCalls = 0
    /\ now = 1
    /\ sweepPc = "select"
    /\ pc = [p \in Callers |-> "idle"]
    /\ last = NoCall
    /\ stored = [id \in EngineIds |-> <<>>]
    /\ nilAccess = FALSE
    /\ eng = NoEngineCall
    /\ mu = Unlocked
    /\ cr = NoReader
    /\ proc = NoChunking

\* A step of the Engine's caller alone.
EngineOnly ==
    UNCHANGED <<items, itemsNil, closed, closeSignals, closeCalls, now,
                sweepPc, pc, last, stored, nilAccess, mu, cr, proc>>

\* IndexDocument is called: the range loop is entered, or left at once when
\* the document has no chunks.
IndexDocument(doc, userPermissions) ==
    /\ eng.pc = "idle"
    /\ eng' = [NoEngineCall EXCEPT
                  !.op = "IndexDocument", !.doc = doc,
                  !.perms = userPermissions,
                  !.pc = IF Len(doc.Content) = 0 THEN "done" ELSE "embed"]
    /\ EngineOnly

\* IndexDocument: e.embedder.Embed(ctx, chunk)
EmbedChunk ==
    /\ eng.pc = "embed"
    /\ eng' = IndexEmbed(eng)
    /\ EngineOnly

\* IndexDocument: e.vectorStore.Store(ctx, &vectorstore.Item{...})
StoreChunk ==
    /\ eng.pc = "store"
    /\ DoStore(IndexItem(eng, now))
    /\ eng' = IndexStored(eng, last'.err)
    /\ UNCHANGED <<now, sweepPc, pc, mu, cr, proc>>

\* Engine.Search is called.
EngineSearch(req) ==
    /\ eng.pc = "idle"
    /\ eng' = [NoEngineCall EXCEPT !.op = "Search", !.req = req,
                                   !.asked = req.Limit, !.pc = "query"]
    /\ EngineOnly

\* Engine.Search: e.embedder.Embed(ctx, req.Query) and the limit default
EmbedQuery ==
    /\ eng.pc = "query"
    /\ eng' = SearchEmbed(eng)
    /\ EngineOnly

\* Engine.Search: e.vectorStore.Search, the map being iterated in `order`,
\* and the conversion of the results
SearchStore(order) ==
    /\ eng.pc = "search"
    /\ DoSearch(EngineParams(eng), order)
    /\ eng' = SearchReturned(eng, last'.err, last'.res)
    /\ UNCHANGED <<now, sweepPc, pc, mu, cr, proc>>

\* The context of the call in progress is cancelled, or its deadline passes.
Cancel(err) ==
    /\ eng.pc \notin {"idle", "done"}
    /\ eng.ctx = ErrNil
    /\ eng' = [eng EXCEPT !.ctx = err]
    /\ EngineOnly

\* The caller has taken the result; the next call can begin.
EngineReturn ==
    /\ eng.pc = "done"
    /\ eng' = NoEngineCall
    /\ EngineOnly

NextEngine ==
    \/ \E doc \in Docs : IndexDocument(doc, {"u1"})
    \/ EmbedChunk
    \/ StoreChunk
    \/ \E req \in EngineRequests : EngineSearch(req)
    \/ EmbedQuery
    \/ \E order \in Orders(items) : SearchStore(order)
    \/ \E err \in {ErrCanceled, ErrDeadline} : Cancel(err)
    \/ EngineReturn
    \/ Cleanup

SpecEngine == InitEngine /\ [][NextEngine]_vars

----------------------------------------------------------------------------
(* SpecReindex: a document indexed again and again, each time with any      *)
(* number of chunks, and searched, while the clock advances, the sweep      *)
(* runs, and chunks are deleted.  No context is cancelled.                  *)

\* The versions of the document "a" have one to MaxChunks chunks; Search is
\* called with no filter and the default limit.  The clock advances while
\* the Engine is between two calls or between two steps of a call.
NextReindex ==
    \/ \E n \in 1..MaxChunks :
           IndexDocument(Document(<<97>>, Chunks(n)), {"u1"})
    \/ EmbedChunk
    \/ StoreChunk
    \/ EngineSearch(SearchRequest("x", {}, 0))
    \/ EmbedQuery
    \/ \E order \in Orders(items) : SearchStore(order)
    \/ EngineReturn
    \/ \E id \in EngineIds : Delete(id)
    \/ Tick
    \/ SweepTick
    \/ SweepPass
    \/ Cleanup

SpecReindex == InitEngine /\ [][NextReindex]_vars

----------------------------------------------------------------------------
(* SpecLimit: Engine.Search called once on a store that holds the chunks of *)
(* one indexed document, for every number of chunks and every limit drawn.  *)

MaxItems == 11     \* chunks of the longest document of SpecLimit

\* The store after IndexDocument of a document "a" of n chunks at time 1.
Indexed(n) ==
    [id \in {chunkID(<<97>>, i) : i \in 0..(n - 1)} |->
        LET chunk == Chunks(n)[id[Len(id)] + 1]
        IN  Item(id, embedding(chunk), chunk, {"u1"}, 1 + ttl)]

\* Two of the orders in which the map can be iterated: by rising and by
\* falling chunk index.
IndexOrders(m) ==
    LET n == Cardinality(DOMAIN m)
    IN  {[k \in 1..n |-> chunkID(<<97>>, k - 1)],
         [k \in 1..n |-> chunkID(<<97>>, n - k)]}

\* The requests of SpecLimit: limits below, at and above zero, up to more
\* than the store holds.
LimitRequests ==
    {SearchRequest("x", f, l) : f \in {{}, {"u1"}}, l \in (-1)..(MaxItems + 1)}

InitLimit ==
    /\ items \in {Indexed(n) : n \in 0..MaxItems}
    /\ itemsNil = FALSE
    /\ closed = FALSE
    /\ closeSignals = 0
    /\ closeCalls = 0
    /\ now = 1
    /\ sweepPc = "select"
    /\ pc = [p \in Callers |-> "idle"]
    /\ last = NoCall
    /\ stored = [id \in DOMAIN items |-> <<items[id]>>]
    /\ nilAccess = FALSE
    /\ eng = NoEngineCall
    /\ mu = Unlocked
    /\ cr = NoReader
    /\ proc = NoChunking

NextLimit ==
    \/ \E req \in LimitRequests : EngineSearch(req)
    \/ EmbedQuery
    \/ \E order \in IndexOrders(items) : SearchStore(order)

SpecLimit == InitLimit /\ [][NextLimit]_vars

----------------------------------------------------------------------------
(* SpecPar: every caller stores an item under an id of its own, all the     *)
(* calls of Store running concurrently; when all have returned, every       *)
(* caller calls Get, again concurrently.  The store stays open and the      *)
(* sweep goroutine runs throughout.  pc[p] is "idle", "Store" (p holds the  *)
(* lock in Store), "stored" (its Store has returned), "Get" (p holds the    *)
(* read lock in Get) or "got".                                              *)

\* The items caller p stores: under the id p, with no expiry or with one
\* that has not passed.
ParItems(p) == {Item(p, <<1, 0>>, "x", {"u1"}, e) : e \in {0, 2}}

InitPar ==
    /\ items = Empty
    /\ itemsNil = FALSE
    /\ closed = FALSE
    /\ closeSignals = 0
    /\ closeCalls = 0
    /\ now = 2
    /\ sweepPc = "select"
    /\ pc = [p \in Callers |-> "idle"]
    /\ last = NoCall
    /\ stored = [id \in Callers |-> <<>>]
    /\ nilAccess = FALSE
    /\ eng = NoEngineCall
    /\ mu = Unlocked
    /\ cr = NoReader
    /\ proc = NoChunking

\* Store of caller p: the body, the deferred unlock and the return.
PStore(p, item) ==
    /\ pc[p] = "Store"
    /\ DoStore(item)
    /\ pc' = [pc EXCEPT ![p] = "stored"]
    /\ UNCHANGED <<now, sweepPc, eng, mu, cr, proc>>

\* Every call of Store has returned.
AllStored == \A q \in Callers : pc[q] \in {"stored", "Get", "got"}

\* s.lock.RLock() returns in the Get of caller p.
PRLock(p) ==
    /\ pc[p] = "stored"
    /\ AllStored
    /\ ~WriterHeld
    /\ pc' = [pc EXCEPT ![p] = "Get"]
    /\ UNCHANGED <<items, itemsNil, closed, closeSignals, closeCalls, now,
                   sweepPc, last, stored, nilAccess, eng, mu, cr, proc>>

\* Get of caller p: the body, the deferred unlock and the return.
PGet(p, id) ==
    /\ pc[p] = "Get"
    /\ DoGet(id)
    /\ pc' = [pc EXCEPT ![p] = "got"]
    /\ UNCHANGED <<now, sweepPc, eng, mu, cr, proc>>

NextPar ==
    \/ \E p \in Callers : Lock(p, "Store")
    \/ \E p \in Callers : \E item \in ParItems(p) : PStore(p, item)
    \/ \E p \in Callers : PRLock(p)
    \/ \E p \in Callers : \E id \in Callers : PGet(p, id)
    \/ SweepTick
    \/ SweepLock
    \/ SweepRun

SpecPar == InitPar /\ [][NextPar]_vars

----------------------------------------------------------------------------
(* s.lock as a sync.RWMutex.  Lock returns when no goroutine holds the lock; *)
(* RLock returns at once unless a writer holds the lock or is blocked in     *)
(* Lock, and a reader blocked in RLock is admitted when a writer unlocks.    *)

\* s.lock.Lock() is called by goroutine a, which blocks.
LockCall(m, a) == [m EXCEPT !.wq = @ \cup {a}]

\* s.lock.RLock() is called by goroutine a.
RLockCall(m, a) ==
    IF m.w = "none" /\ m.wq = {} THEN [m EXCEPT !.r = @ \cup {a}]
    ELSE [m EXCEPT !.rq = @ \cup {a}]

\* Lock can return to a.
CanLock(m, a) == a \in m.wq /\ m.w = "none" /\ m.r = {}

\* Unlock or RUnlock by a: the blocked readers are admitted by Unlock.
Released(m, a) ==
    IF m.w = a THEN [m EXCEPT !.w = "none", !.r = m.rq, !.rq = {}]
    ELSE [m EXCEPT !.r = @ \ {a}]

\* Faulty variant (sensitivity of C21): the handler returns without
\* unlocking.
neverUnlock(m, a, err) == m

\* Faulty variant (sensitivity of C22): the handler unlocks only when it
\* returns nil.
unlockOnSuccess(m, a, err) == IF err = ErrNil THEN Released(m, a) ELSE m

\* defer s.lock.Unlock() / defer s.lock.RUnlock(): executed when the handler
\* returns, whatever it returns.
deferUnlock(m, a, err) == Released(m, a)

\* Goroutine a holds the lock, for writing or for reading.
HoldsW(a) == mu.w = a

HoldsR(a) == a \in mu.r

\* Goroutine a is blocked in Lock or RLock.
Blocked(a) == a \in mu.wq \cup mu.rq

----------------------------------------------------------------------------
(* SpecLock: two clients of the store and the sweep goroutine, each call    *)
(* running as the call of Lock or RLock, its return, and the handler's body *)
(* with the deferred unlock.  pc[c] names the handler client c is in.  The  *)
(* scheduler runs every goroutine that can run and the lock is handed to    *)
(* every goroutine that keeps waiting for it.                               *)

LockClients == {"c1", "c2"}

InitLock ==
    /\ items = Empty
    /\ itemsNil = FALSE
    /\ closed = FALSE
    /\ closeSignals = 0
    /\ closeCalls = 0
    /\ now = 2
    /\ sweepPc = "select"
    /\ pc = [c \in LockClients |-> "idle"]
    /\ last = NoCall
    /\ stored = [id \in ConcIds |-> <<>>]
    /\ nilAccess = FALSE
    /\ eng = NoEngineCall
    /\ mu = Unlocked
    /\ cr = NoReader
    /\ proc = NoChunking

\* Client c calls a handler, which calls Lock or RLock first.
LCall(c, op) ==
    /\ pc[c] = "idle"
    /\ pc' = [pc EXCEPT ![c] = op]
    /\ mu' = IF op \in Writers THEN LockCall(mu, c) ELSE RLockCall(mu, c)
    /\ UNCHANGED <<items, itemsNil, closed, closeSignals, closeCalls, now,
                   sweepPc, last, stored, nilAccess, eng, cr, proc>>

\* s.lock.Lock() returns to goroutine a.
LAcquire(a) ==
    /\ CanLock(mu, a)
    /\ mu' = [mu EXCEPT !.w = a, !.wq = @ \ {a}]
    /\ UNCHANGED <<items, itemsNil, closed, closeSignals, closeCalls, now,
                   sweepPc, pc, last, stored, nilAccess, eng, cr, proc>>

\* The handler's body and its deferred unlock, for client c.
LReturn(c) ==
    /\ pc' = [pc EXCEPT ![c] = "idle"]
    /\ mu' = deferUnlock(mu, c, last'.err)
    /\ UNCHANGED <<now, sweepPc, eng, cr, proc>>

LStore(c, item) ==
    pc[c] = "Store" /\ HoldsW(c) /\ DoStore(item) /\ LReturn(c)

LGet(c, id) == pc[c] = "Get" /\ HoldsR(c) /\ DoGet(id) /\ LReturn(c)

LDelete(c, id) == pc[c] = "Delete" /\ HoldsW(c) /\ DoDelete(id) /\ LReturn(c)

LSearch(c, params, order) ==
    pc[c] = "Search" /\ HoldsR(c) /\ DoSearch(params, order) /\ LReturn(c)

LClose(c) == pc[c] = "Close" /\ HoldsW(c) /\ DoClose("Close") /\ LReturn(c)

\* cleanupExpiredItems is called and calls s.lock.Lock().
LSweepCall ==
    /\ sweepPc = "tick"
    /\ ~Blocked("sweep") /\ ~HoldsW("sweep")
    /\ mu' = LockCall(mu, "sweep")
    /\ UNCHANGED <<items, itemsNil, closed, closeSignals, closeCalls, now,
                   sweepPc, pc, last, stored, nilAccess, eng, cr, proc>>

\* cleanupExpiredItems: the pass and the deferred unlock.
LSweepRun ==
    /\ sweepPc = "tick"
    /\ HoldsW("sweep")
    /\ sweepPc' = "select"
    /\ DoSweep
    /\ mu' = deferUnlock(mu, "sweep", ErrNil)
    /\ UNCHANGED <<now, pc, eng, cr, proc>>

\* A step of the store's clients and of the sweep goroutine.
NextLock ==
    \/ \E c \in LockClients : \E op \in Writers \cup Readers : LCall(c, op)
    \/ \E a \in LockClients \cup {"sweep"} : LAcquire(a)
    \/ \E c \in LockClients : \E item \in ConcPool : LStore(c, item)
    \/ \E c \in LockClients : \E id \in ConcIds : LGet(c, id)
    \/ \E c \in LockClients : \E id \in ConcIds : LDelete(c, id)
    \/ \E c \in LockClients : \E order \in Orders(items) :
           \E params \in ConcParams : LSearch(c, params, order)
    \/ \E c \in LockClients : LClose(c)
    \/ SweepTick
    \/ SweepExit
    \/ LSweepCall
    \/ LSweepRun

\* A goroutine that is in a handler and has the lock runs the handler to
\* its return; a goroutine that keeps waiting for the lock gets it.
LockFairness ==
    /\ \A c \in LockClients :
           WF_vars(\/ \E item \in ConcPool : LStore(c, item)
                   \/ \E id \in ConcIds : LGet(c, id) \/ LDelete(c, id)
                   \/ \E order \in Orders(items) : \E params \in ConcParams :
                          LSearch(c, params, order)
                   \/ LClose(c))
    /\ \A a \in LockClients \cup {"sweep"} : SF_vars(LAcquire(a))
    /\ WF_vars(LSweepCall)
    /\ WF_vars(LSweepRun)

SpecLock == InitLock /\ [][NextLock]_vars /\ LockFairness

----------------------------------------------------------------------------
(* SpecHold: the Engine's caller beside one client of the store and the     *)
(* sweep goroutine, with s.lock.  A call of Embed is a step that need never *)
(* be taken (Embed may block for ever).                                     *)

\* What is indexed, asked and stored in SpecHold; the client uses the id of
\* the document's first chunk.
HoldIds == {chunkID(<<97>>, i) : i \in 0..1}

InitHold ==
    /\ items = Empty
    /\ itemsNil = FALSE
    /\ closed = FALSE
    /\ closeSignals = 0
    /\ closeCalls = 0
    /\ now = 2
    /\ sweepPc = "select"
    /\ pc = [c \in LockClients |-> "idle"]
    /\ last = NoCall
    /\ stored = [id \in HoldIds |-> <<>>]
    /\ nilAccess = FALSE
    /\ eng = NoEngineCall
    /\ mu = Unlocked
    /\ cr = NoReader
    /\ proc = NoChunking

\* The Engine's goroutine is in no call of the store.
EngineOutside ==
    ~HoldsW("engine") /\ ~HoldsR("engine") /\ ~Blocked("engine")

\* IndexDocument calls Store, which calls s.lock.Lock().
HStoreCall ==
    /\ eng.pc = "store"
    /\ EngineOutside
    /\ mu' = LockCall(mu, "engine")
    /\ UNCHANGED <<items, itemsNil, closed, closeSignals, closeCalls, now,
                   sweepPc, pc, last, stored, nilAccess, eng, cr, proc>>

\* Store: its body and the deferred unlock; IndexDocument goes on.
HStore ==
    /\ eng.pc = "store"
    /\ HoldsW("engine")
    /\ DoStore(IndexItem(eng, now))
    /\ eng' = IndexStored(eng, last'.err)
    /\ mu' = deferUnlock(mu, "engine", last'.err)
    /\ UNCHANGED <<now, sweepPc, pc, cr, proc>>

\* Engine.Search calls vectorStore.Search, which calls s.lock.RLock().
HSearchCall ==
    /\ eng.pc = "search"
    /\ EngineOutside
    /\ mu' = RLockCall(mu, "engine")
    /\ UNCHANGED <<items, itemsNil, closed, closeSignals, closeCalls, now,
                   sweepPc, pc, last, stored, nilAccess, eng, cr, proc>>

\* Search: its body and the deferred unlock; Engine.Search returns.
HSearch(order) ==
    /\ eng.pc = "search"
    /\ HoldsR("engine")
    /\ DoSearch(EngineParams(eng), order)
    /\ eng' = SearchReturned(eng, last'.err, last'.res)
    /\ mu' = deferUnlock(mu, "engine", last'.err)
    /\ UNCHANGED <<now, sweepPc, pc, cr, proc>>

NextHold ==
    \/ IndexDocument(Document(<<97>>, Chunks(2)), {"u1"})
    \/ EmbedChunk
    \/ HStoreCall
    \/ HStore
    \/ EngineSearch(SearchRequest("x", {}, 0))
    \/ EmbedQuery
    \/ HSearchCall
    \/ \E order \in Orders(items) : HSearch(order)
    \/ EngineReturn
    \/ \E op \in Writers \cup Readers : LCall("c1", op)
    \/ \E a \in {"c1", "sweep", "engine"} : LAcquire(a)
    \/ \E e \in {0, 1} :
           LStore("c1", Item(chunkID(<<97>>, 0), <<1, 0>>, "z", {"u1"}, e))
    \/ \E id \in HoldIds : LGet("c1", id)
    \/ \E id \in HoldIds : LDelete("c1", id)
    \/ \E order \in Orders(items) : \E params \in ConcParams :
           LSearch("c1", params, order)
    \/ LClose("c1")
    \/ SweepTick
    \/ SweepExit
    \/ LSweepCall
    \/ LSweepRun

SpecHold == InitHold /\ [][NextHold]_vars

----------------------------------------------------------------------------
(* Vocabulary of the properties of the Engine *)

\* The call of IndexDocument, or of Search, has returned.
IndexReturned == eng.op = "IndexDocument" /\ eng.pc = "done"

SearchReturnedNow == eng.op = "Search" /\ eng.pc = "done"

\* The indices of the chunks of a document, in order.
ChunkIndices(doc) == [k \in 1..Len(doc.Content) |-> k - 1]

\* The indices the call has passed to Store, in order, and those among them
\* for which Store returned nil.
StoreIndices == [k \in DOMAIN eng.storeCalls |-> eng.storeCalls[k].i]

StoredIndices ==
    {eng.storeCalls[k].i :
        k \in {j \in DOMAIN eng.storeCalls : eng.storeCalls[j].err = ErrNil}}

\* A call of Store of this call of IndexDocument has failed.
StoreFailed == \E k \in DOMAIN eng.storeCalls : eng.storeCalls[k].err # ErrNil

\* The error is the one a cancelled or expired context reports.
CancellationRequested(e) == e \in {ErrCanceled, ErrDeadline}

----------------------------------------------------------------------------
(* C14 *)

\* C14: a failure of Embed for a chunk does not end IndexDocument.  When
\* the call has returned and no Store has failed: it returned nil; every
\* chunk was passed to Embed, in order; the chunks passed to Store are, in
\* order, exactly those whose Embed did not fail, so none was stored for a
\* failing chunk; and, the store still being open, each of them is in the
\* store under its id with its content.
C14_EmbeddingFailureSkipped ==
    (IndexReturned /\ ~StoreFailed) =>
        /\ eng.err = ErrNil
        /\ eng.embedCalls = ChunkIndices(eng.doc)
        /\ StoreIndices =
               SelectSeq(ChunkIndices(eng.doc), LAMBDA i : i \notin eng.failed)
        /\ ~closed =>
               \A i \in StoredIndices :
                   LET id == chunkID(eng.doc.DocumentID, i)
                   IN  /\ id \in DOMAIN items
                       /\ items[id].Content = eng.doc.Content[i + 1]

\* IndexDocument has returned nil for a document of which a first chunk was
\* stored, the Embed of a later one failed, and the chunk after that one
\* was still passed to Embed.
C14_Witness ==
    /\ IndexReturned /\ eng.err = ErrNil /\ ~closed
    /\ \E i \in eng.failed :
          /\ \E j \in StoredIndices : j < i
          /\ \E k \in DOMAIN eng.embedCalls : eng.embedCalls[k] = i + 1

----------------------------------------------------------------------------
(* C15 *)

\* C15 as stated: when Store has failed for chunk k and IndexDocument has
\* returned, the items the call stored for the chunks before k are in the
\* store.
C15_EarlierChunksRemain ==
    (IndexReturned /\ StoreFailed) =>
        \A i \in StoredIndices : chunkID(eng.doc.DocumentID, i) \in DOMAIN items

\* C15, amended: when Store fails for chunk k, IndexDocument returns that
\* error at once: k is the last chunk passed to Embed and to Store, and
\* every earlier Store of the call succeeded.  IndexDocument undoes nothing:
\* no step of it removes or changes an item other than the one it stores.
\* (The items of the earlier chunks are gone all the same: Store fails only
\* on a closed store, and Close has released every item.)
C15_StoreFailureFatal ==
    /\ [](StoreFailed =>
             LET k == eng.storeCalls[Len(eng.storeCalls)]
             IN  /\ IndexReturned
                 /\ k.err # ErrNil /\ eng.err = k.err
                 /\ \A j \in 1..(Len(eng.storeCalls) - 1) :
                        eng.storeCalls[j].err = ErrNil
                 /\ eng.embedCalls[Len(eng.embedCalls)] = k.i
                 /\ closed /\ items = Empty)
    /\ [][(eng.op = "IndexDocument" /\ eng.pc \in {"embed", "store"}
           /\ eng'.embedCalls \o StoreIndices' # eng.embedCalls \o StoreIndices)
          => \A id \in DOMAIN items :
                 /\ id \in DOMAIN items'
                 /\ items'[id] # items[id] =>
                        (eng.pc = "store"
                         /\ id = chunkID(eng.doc.DocumentID, eng.i))]_vars

\* Store has failed for the second chunk of a document of three, after the
\* Store of the first had succeeded.
C15_Witness ==
    /\ IndexReturned /\ StoreFailed /\ StoreClosed(eng.err)
    /\ Len(eng.storeCalls) = 2 /\ eng.storeCalls[2].i = 1
    /\ Len(eng.doc.Content) = 3

----------------------------------------------------------------------------
(* C16 *)

\* The decimal numeral of a natural number, as code points.
RECURSIVE decimal(_)
decimal(i) ==
    IF i < 10 THEN <<48 + i>> ELSE decimal(i \div 10) \o <<48 + (i % 10)>>

\* C16: the id under which IndexDocument stores chunk i of document D is D,
\* "-" and the numeral of i ("a-0", "a-1", ...).
C16_ChunkIdNumeral ==
    (eng.op = "IndexDocument" /\ eng.storeCalls # <<>> /\ last.op = "Store")
        => last.id = eng.doc.DocumentID \o <<45>>
                        \o decimal(eng.storeCalls[Len(eng.storeCalls)].i)

----------------------------------------------------------------------------
(* C17 *)

\* C17: Engine.Search replaces a limit that is zero or negative by 10
\* before it queries the store: the store is asked for 10 results, or for
\* the limit when it is positive, and Search returns that many results or
\* all the eligible items when they are fewer (here every item of the store
\* is eligible), so never more than 10, or than the limit.
C17_DefaultLimit ==
    LET limit == IF eng.asked <= 0 THEN 10 ELSE eng.asked
    IN  /\ (eng.op = "Search" /\ eng.pc = "search") => eng.req.Limit = limit
        /\ (SearchReturnedNow /\ eng.err = ErrNil) =>
               /\ last.op = "Search" /\ last.params[1].Limit = limit
               /\ Len(eng.results) <= limit
               /\ Len(eng.results) = Min(limit, Cardinality(DOMAIN items))

\* Search was called with a limit of zero or less on a store of more than
\* 10 eligible items and has returned 10 results.
C17_Witness ==
    /\ SearchReturnedNow /\ eng.err = ErrNil /\ eng.asked <= 0
    /\ Cardinality(DOMAIN items) > 10
    /\ Len(eng.results) = 10

----------------------------------------------------------------------------
(* C18 *)

\* C18: Engine.Search returns a failure as it is and with no results, and
\* tries nothing twice.  Embed is called once; when it fails (the context
\* is cancelled or has run out) its error is returned and the store is not
\* queried; otherwise the store is queried once and its error, when it
\* returns one, is returned.
C18_SearchFailureVerbatim ==
    SearchReturnedNow =>
        /\ eng.embedCalls = <<0>>
        /\ eng.failed # {} =>
               /\ eng.searchCalls = <<>>
               /\ CancellationRequested(eng.err) /\ eng.err = eng.ctx
               /\ eng.results = <<>>
        /\ eng.failed = {} =>
               /\ Len(eng.searchCalls) = 1
               /\ eng.err = eng.searchCalls[1]
               /\ eng.err \in {ErrNil, ErrClosed}
        /\ eng.err # ErrNil => eng.results = <<>>

\* Search has returned StoreClosed: the store was closed after the query
\* had been embedded.
C18_Witness ==
    /\ SearchReturnedNow /\ StoreClosed(eng.err)
    /\ eng.failed = {} /\ eng.results = <<>>

----------------------------------------------------------------------------
(* C19 *)

\* C19: a cancellation is not absorbed by IndexDocument: when Embed has
\* failed in a call of IndexDocument because the context was cancelled,
\* the call does not return nil.
C19_CancellationNotAbsorbed ==
    (IndexReturned /\ eng.failed # {}) => eng.err # ErrNil

----------------------------------------------------------------------------
(* C20 *)

\* C20: concurrent calls of Store with pairwise different ids on an open
\* store all succeed, and when they have returned the store holds every one
\* of the items; concurrent calls of Get for these ids then all succeed,
\* each returning the item stored under its id.
C20_ConcurrentStoresKept ==
    /\ [](AllStored =>
             /\ DOMAIN items = Callers
             /\ \A p \in Callers :
                    stored[p] # <<>> /\ stored[p][1] \in ParItems(p)
                    /\ items[p] = stored[p][1])
    /\ [][\A p \in Callers :
             /\ (pc[p] = "Store" /\ pc'[p] = "stored") =>
                    last'.op = "Store" /\ last'.id = p /\ last'.err = ErrNil
             /\ (pc[p] = "Get" /\ pc'[p] = "got") =>
                    /\ last'.op = "Get" /\ last'.err = ErrNil
                    /\ last'.item = stored[last'.id]
                    /\ last'.item[1].ID = last'.id]_vars

\* Every caller has stored its item and has got an item back; the last Get
\* returned the item the store holds under the id asked for.
C20_Witness ==
    /\ \A p \in Callers : pc[p] = "got"
    /\ DOMAIN items = Callers
    /\ last.op = "Get" /\ last.err = ErrNil /\ last.item = <<items[last.id]>>

----------------------------------------------------------------------------
(* C21 *)

\* C21: the lock is never held across a call of Embed.  While IndexDocument
\* or Engine.Search is in (or before) a call of Embed, its goroutine
\* neither holds s.lock nor waits for it, so that no other goroutine waits
\* for the Embed to end: a client blocked in Lock can take the lock unless
\* the sweep holds it, a client blocked in RLock waits for the sweep's pass
\* only, and the sweep blocked in Lock can take the lock unless the client
\* holds it.
C21_NoLockAcrossEmbed ==
    eng.pc \in {"embed", "query"} =>
        /\ EngineOutside
        /\ "c1" \in mu.wq => CanLock(mu, "c1") \/ HoldsW("sweep")
        /\ "c1" \in mu.rq => HoldsW("sweep") \/ "sweep" \in mu.wq
        /\ "sweep" \in mu.wq =>
               CanLock(mu, "sweep") \/ HoldsW("c1") \/ HoldsR("c1")

\* IndexDocument has stored its first chunk and is at the Embed of the
\* second, while the client holds the lock in Store.
C21_Witness ==
    /\ eng.op = "IndexDocument" /\ eng.pc = "embed" /\ eng.storeCalls # <<>>
    /\ pc["c1"] = "Store" /\ HoldsW("c1")

----------------------------------------------------------------------------
(* C22 *)

\* C22: no operation of the store blocks for ever.  The lock is held for
\* writing by at most one goroutine and then by no reader; a client holds
\* it for reading only inside Get or Search and for writing only inside
\* Store, Delete or Close, the sweep goroutine for writing only inside a
\* pass; a client that is in no handler holds nothing and waits for
\* nothing, whatever its last call returned; and every call that has
\* started returns, and every pass of the sweep that has started ends.
C22_NoOperationBlocks ==
    /\ [](/\ mu.w # "none" => mu.r = {}
          /\ \A c \in LockClients :
                 /\ HoldsW(c) => pc[c] \in Writers
                 /\ HoldsR(c) => pc[c] \in Readers
                 /\ pc[c] = "idle" => ~HoldsW(c) /\ ~HoldsR(c) /\ ~Blocked(c)
          /\ HoldsW("sweep") => sweepPc = "tick"
          /\ ~HoldsR("sweep")
          /\ sweepPc # "tick" => ~Blocked("sweep"))
    /\ \A c \in LockClients : (pc[c] # "idle") ~> (pc[c] = "idle")
    /\ (sweepPc = "tick") ~> (sweepPc = "select")

\* A Get has returned StoreClosed, the lock released; the sweep goroutine
\* now holds the lock for a pass while one client is blocked in RLock and
\* the other in Lock.
C22_Witness ==
    /\ StoreClosed(last.err) /\ last.op = "Get"
    /\ HoldsW("sweep")
    /\ mu.rq # {} /\ mu.wq # {}

----------------------------------------------------------------------------
(* C23 *)

Neg(v) == [i \in DOMAIN v |-> 0 - v[i]]

IsZeroVector(v) == \A i \in DOMAIN v : v[i] = 0

\* C23: the score Search reports for an item is the cosine of the query and
\* the item's vector: 1 when the two are the same nonzero vector, -1 when
\* one is the negation of the other, whatever their norm; between -1 and 1
\* always; 0 when they differ in length or one of them is the zero vector.
\* The code divides by normA * normB (its sqrt returns its argument), so
\* the score of <<1, 1>> against itself is 2 / 4.
C23_CosineIdentities ==
    (last.op = "Search" /\ Len(last.res) = 1) =>
        LET a == last.params[1].Vector
            b == items[1].Vector
            s == last.res[1].Score
        IN  /\ ~ScoreLT(s, Score(-1, 1)) /\ ~ScoreLT(Score(1, 1), s)
            /\ (Len(a) # Len(b) \/ IsZeroVector(a) \/ IsZeroVector(b)) =>
                   ScoreEQ(s, Score(0, 1))
            /\ (a = b /\ ~IsZeroVector(a)) => ScoreEQ(s, Score(1, 1))
            /\ (a = Neg(b) /\ ~IsZeroVector(a)) => ScoreEQ(s, Score(-1, 1))

----------------------------------------------------------------------------
(* C24 *)

\* The words of a string, said without reading it from left to right: the
\* positions where a word starts, the position where the word starting at i
\* ends, and the words in the order of their starts.
WordStarts(s) ==
    {i \in 1..Len(s) : s[i] \notin Space /\ (i = 1 \/ s[i - 1] \in Space)}

WordEnd(s, i) ==
    CHOOSE j \in i..Len(s) :
        /\ \A k \in i..j : s[k] \notin Space
        /\ j = Len(s) \/ s[j + 1] \in Space

NthStart(s, n) ==
    CHOOSE i \in WordStarts(s) :
        Cardinality({k \in WordStarts(s) : k < i}) = n - 1

WordsOf(s) ==
    [n \in 1..Cardinality(WordStarts(s)) |->
        SubSeq(s, NthStart(s, n), WordEnd(s, NthStart(s, n)))]

RECURSIVE Concat(_)
Concat(ss) == IF ss = <<>> THEN <<>> ELSE ss[1] \o Concat(Tail(ss))

ChunksReturned == proc.chunks # <<>>

\* C24: chunkContent returns chunks of exactly chunkSize words each, except
\* the last, which has between one and chunkSize words; the words of the
\* chunks, one chunk after the other, are the words of the content, none
\* split, dropped or moved; a content without words gives no chunk.
C24_ChunksOfWords ==
    ChunksReturned =>
        LET chunks == proc.chunks[1]
            n == Len(chunks)
        IN  /\ \A k \in 1..(n - 1) :
                   Len(WordsOf(chunks[k])) = proc.chunkSize
            /\ n > 0 => Len(WordsOf(chunks[n])) \in 1..proc.chunkSize
            /\ Concat([k \in 1..n |-> WordsOf(chunks[k])])
                   = WordsOf(proc.content)
            /\ WordsOf(proc.content) = <<>> => chunks = <<>>

\* A content of three words and a run of two spaces has been split into a
\* full chunk of two words and a last chunk of one.
C24_Witness ==
    /\ ChunksReturned
    /\ proc.chunkSize = 2
    /\ Len(proc.chunks[1]) = 2
    /\ Len(WordsOf(proc.content)) = 3
    /\ \E i \in 1..(Len(proc.content) - 1) :
           proc.content[i] \in Space /\ proc.content[i + 1] \in Space

----------------------------------------------------------------------------
(* C25 *)

\* The instants an expiry can name: the zero Time and the clock's values.
Instants == 0..MaxTime

\* C25: "no expiry" is told apart from every instant, so Get returns no item
\* whose ExpiresAt is what a caller writes for an instant that has passed.
\* The zero Time, written for the instant 0, is also what is written for no
\* expiry: the item is returned at every later time.
C25_NoExpiryDistinct ==
    (last.op = "Get" /\ last.err = ErrNil) =>
        \A t \in Instants :
            last.item[1].ExpiresAt = ExpiresAtOf(<<t>>) => ~After(now, t)

----------------------------------------------------------------------------
(* C26 *)

\* C26: the store owns its items: what Get returns for an id, and what
\* Search reports for it, is the item as the last successful Store of the
\* id passed it, whatever the callers have written since to the item they
\* passed or to the item they were returned.  The map holds the caller's
\* pointer, so a caller's write shows in the next Get and Search.
C26_StoreOwnsItems ==
    [][/\ (GetStep /\ last'.err = ErrNil) => last'.item = stored[last'.id]
       /\ (SearchStep /\ last'.err = ErrNil) =>
              \A k \in DOMAIN last'.res :
                  last'.res[k].Content = stored[last'.res[k].ID][1].Content
      ]_vars

----------------------------------------------------------------------------
(* C27 *)

\* C27: while the store is open, the vector of every item of the map has
\* Config.VectorSize components.  Store reads neither s.config nor the
\* length of item.Vector, so an item with a shorter vector is stored.
C27_VectorLength ==
    ~closed => \A id \in DOMAIN items : Len(items[id].Vector) = VectorSize

----------------------------------------------------------------------------
(* C28 *)

\* The step is a call of Get or of Search that returns: the record of the
\* last call names one of the two, and neither the clock nor the sweep
\* goroutine has moved (every other handler leaves its own name in the
\* record).
ReadStep == last'.op \in {"Get", "Search"} /\ UNCHANGED <<now, sweepPc>>

\* C28: a call of Get or of Search changes neither the map nor the closed
\* flag, whatever it returns; the expired item that Get reports as not found
\* is still in the map afterwards.
C28_ReadOnly ==
    [][ReadStep =>
          /\ UNCHANGED <<items, itemsNil, closed, closeSignals>>
          /\ (last'.op = "Get" /\ last'.err = ErrExpired) =>
                 last'.id \in DOMAIN items'
      ]_vars

\* Get has found an expired item and failed, and the map still holds the
\* item as it was stored.
C28_Witness ==
    /\ last.op = "Get" /\ last.err = ErrExpired
    /\ last.id \in DOMAIN items /\ Expired(items[last.id], now)
    /\ <<items[last.id]>> = stored[last.id]

----------------------------------------------------------------------------
(* C29 *)

IsPrefix(s, t) == Len(s) <= Len(t) /\ s = SubSeq(t, 1, Len(s))

\* C29: after the source has reported EOF and the data read has been
\* returned, NextChunk returns io.EOF, so the chunks that ReadAll collects
\* are, one after the other, a prefix of the input at every moment and the
\* input when ReadAll returns them; each has chunkSize bytes, the last
\* between one and chunkSize.  The first test of NextChunk asks for an empty
\* buffer, which a partial last chunk never leaves: the chunk is returned
\* again by every later call.
C29_ChunksAreTheInput ==
    /\ IsPrefix(Concat(cr.chunks), cr.input)
    /\ (cr.pc = "done" /\ cr.err = ErrNil) =>
           /\ Concat(cr.chunks) = cr.input
           /\ \A k \in 1..(Len(cr.chunks) - 1) :
                  Len(cr.chunks[k]) = cr.chunkSize
           /\ cr.chunks # <<>> =>
                  Len(cr.chunks[Len(cr.chunks)]) \in 1..cr.chunkSize

----------------------------------------------------------------------------
(* C30 *)

\* The step is a step of the call of IndexDocument in progress.
IndexStep == eng.op = "IndexDocument" /\ eng' # eng

\* The step is the return of vectorStore.Search to Engine.Search.
StoreSearched == eng.pc = "search" /\ eng'.pc = "done"

\* C30: on an open store, a call of IndexDocument changes the map only at
\* the ids of the chunks it stores, where it puts the new item in the place
\* of the old; every other item, the chunks of a higher index left by an
\* earlier version of the document among them, stays as it was.  Search,
\* with no filter and no limit reached, reports every item of the map whose
\* expiry has not passed, those left by an earlier version included.
C30_ReindexKeepsHigher ==
    [][/\ (IndexStep /\ ~closed) =>
              LET id == chunkID(eng.doc.DocumentID, eng.i)
              IN  IF eng.pc = "store"
                  THEN /\ DOMAIN items' = DOMAIN items \cup {id}
                       /\ items'[id].Content = eng.doc.Content[eng.i + 1]
                       /\ items'[id].ExpiresAt = now + ttl
                       /\ \A k \in DOMAIN items \ {id} : items'[k] = items[k]
                  ELSE items' = items
       /\ (StoreSearched /\ ~closed) =>
              ResultIds(last'.res) =
                  {k \in DOMAIN items : ~ExpiryPassed(items[k], now)}
      ]_vars

\* Search has reported two chunks of the document, of which the one of
\* index 0 was stored later than the one of index 1: the document was
\* indexed again with one chunk, and the chunk of index 1 is the earlier
\* version's.
C30_Witness ==
    /\ eng.op = "Search" /\ eng.pc = "done" /\ Len(eng.results) = 2
    /\ DOMAIN items = {chunkID(<<97>>, 0), chunkID(<<97>>, 1)}
    /\ items[chunkID(<<97>>, 1)].ExpiresAt
           < items[chunkID(<<97>>, 0)].ExpiresAt

====
